---- MODULE Spec2Model ----
(***************************************************************************)
(* A model of the MusicSynth score-to-video pipeline                       *)
(* (src/lambda_package/synthesia.py and its callers).                      *)
(*                                                                         *)
(* Times are exact integers in milliseconds: the model's tempo, divisions  *)
(* and tick values are chosen so that every product and quotient the code  *)
(* computes in floating point is exact, and rounding plays no part.        *)
(* An optional XML element, attribute or Python value is a set with at most*)
(* one member: {} is "absent"/None, {x} is "present with value x".         *)
(* Numeric texts (divisions, tempo, durations, alter, voice) are strings;  *)
(* pitch texts (step, octave), lyrics and note names are sequences of      *)
(* characters, so that the string operations of the code can be followed.  *)
(***************************************************************************)
EXTENDS Integers, Sequences, FiniteSets, TLC

VARIABLES
    doc,                  \* the MusicXML document: properties and the note entries walked so far
    pc,                   \* where the program is
    caller,               \* who runs the pipeline: "none", "main", "process_uploaded_file", "api"
    idx,                  \* parse_musicxml: number of note entries consumed by the running decode
    notes,                \* parse_musicxml: the list of note events
    current_time,         \* parse_musicxml: the running clock (ms)
    props,                \* parse_musicxml: divisions, tempo_bpm, seconds_per_division
    timeline,             \* parse_musicxml: the list it returned, Absent while it has returned none
    error,                \* the exception that ended the run, or "none"
    video,                \* what make_video produced
    env,                  \* the font files and environment variable the renderer probes
    frame,                \* create_fingerboard_frame: the latest call (arguments and result)
    prev_frame,           \* create_fingerboard_frame: an earlier call
    first,                \* the result of the first decode, kept while the document is decoded again
    resolve,              \* the position lookup of one note name: the name and the outcome
    event,                \* lambda_handler: the event it was invoked with
    session,              \* lambda_handler: the session directory and what was written under it
    processor,            \* lambda_handler: the FileProcessor it constructed and the calls that made
    response              \* lambda_handler: the response of its return statement, Absent before

\* what the pipeline, the decode and the renderer leave alone
others == <<resolve, event, session, processor, response>>

vars == <<doc, pc, caller, idx, notes, current_time, props, timeline, error, video, env,
          frame, prev_frame, first, others>>

------------------------------------------------------------------------------
(* Bounds of the model *)

MaxEntries == 3           \* note entries in a document
MaxFrameNotes == 2        \* note entries of the documents whose timelines are rendered directly
MaxQuery == 2             \* query times of direct renders: 0, QueryStep, ..., MaxQuery * QueryStep
MaxOctave == 6            \* the octaves of the note names looked up on their own: 2..MaxOctave
FrameRate == 1            \* the frames per second given to make_video (the callers' default is 30)

------------------------------------------------------------------------------
(* Units and program constants *)

MsPerMinute == 60000      \* the 60.0 seconds of a minute, in ms
SecondMs == MsPerMinute \div 60   \* one second, in ms
DefaultTempoBpm == 120
DefaultVoice == 1
BlankClipSeconds == 1
BufferSeconds == 1
QueryStep == SecondMs \div 2      \* ms between the query times of direct renders

------------------------------------------------------------------------------
(* Optional values *)

Absent == {}
Some(x) == {x}
TheOf(o) == CHOOSE x \in o : TRUE

\* Python's "elem is None or not elem.text" for an element whose text is a string.
MissingText(o) == o = Absent \/ TheOf(o) = ""
\* The same for a text kept as a sequence of characters.
MissingChars(o) == o = Absent \/ TheOf(o) = <<>>

------------------------------------------------------------------------------
(* Text to number conversions: float() and int() on the texts of the model *)

FloatTable ==
    ("0" :> 0) @@ ("1" :> 1) @@ ("2" :> 2) @@ ("4" :> 4) @@ ("-1" :> -1) @@ ("-2" :> -2)
    @@ ("30" :> 30) @@ ("60" :> 60) @@ ("-120" :> -120) @@ ("1.0" :> 1)

\* float(text) succeeds
IsFloatText(s) == s \in DOMAIN FloatTable
FloatOf(s) == FloatTable[s]

\* int(text) succeeds: integer literals only ("1.0" is a float text, not an int text)
IsIntText(s) == s \in (DOMAIN FloatTable) \ {"1.0"}
IntOf(s) == FloatTable[s]

Digits == <<"0", "1", "2", "3", "4", "5", "6", "7", "8", "9">>
IsDigit(c) == \E d \in 1..10 : Digits[d] = c
DigitValue(c) == (CHOOSE d \in 1..10 : Digits[d] = c) - 1

RECURSIVE DigitsValue(_)
DigitsValue(cs) ==
    IF cs = <<>> THEN 0
    ELSE 10 * DigitsValue(SubSeq(cs, 1, Len(cs) - 1)) + DigitValue(cs[Len(cs)])

AllDigits(cs) == cs # <<>> /\ \A i \in 1..Len(cs) : IsDigit(cs[i])

\* int() on a sequence of characters: an optional sign, then digits
IsIntChars(cs) ==
    \/ AllDigits(cs)
    \/ Len(cs) >= 2 /\ cs[1] \in {"-", "+"} /\ AllDigits(Tail(cs))
IntOfChars(cs) ==
    IF cs[1] = "-" THEN 0 - DigitsValue(Tail(cs))
    ELSE IF cs[1] = "+" THEN DigitsValue(Tail(cs))
    ELSE DigitsValue(cs)

\* str(n) for the small integers a note name can hold
IntToChars(n) ==
    IF n < 0 THEN <<"-", Digits[(0 - n) + 1]>>
    ELSE IF n < 10 THEN <<Digits[n + 1]>>
    ELSE <<Digits[(n \div 10) + 1], Digits[(n % 10) + 1]>>

------------------------------------------------------------------------------
(* Operations on strings kept as sequences of characters *)

IsPrefixAt(s, pat, i) == i + Len(pat) - 1 <= Len(s) /\ SubSeq(s, i, i + Len(pat) - 1) = pat

\* Python's "pat in s"
Contains(s, pat) == \E i \in 1..Len(s) : IsPrefixAt(s, pat, i)

\* Python's s.replace(pat, rep): every occurrence, left to right, without overlap
RECURSIVE ReplaceFrom(_, _, _, _)
ReplaceFrom(s, pat, rep, i) ==
    IF i > Len(s) THEN <<>>
    ELSE IF IsPrefixAt(s, pat, i) THEN rep \o ReplaceFrom(s, pat, rep, i + Len(pat))
    ELSE <<s[i]>> \o ReplaceFrom(s, pat, rep, i + 1)
Replace(s, pat, rep) == ReplaceFrom(s, pat, rep, 1)

IsSpace(c) == c = " "
RECURSIVE LStrip(_)
LStrip(s) == IF s # <<>> /\ IsSpace(s[1]) THEN LStrip(Tail(s)) ELSE s
RECURSIVE RStrip(_)
RStrip(s) == IF s # <<>> /\ IsSpace(s[Len(s)]) THEN RStrip(SubSeq(s, 1, Len(s) - 1)) ELSE s
\* Python's s.strip()
Strip(s) == RStrip(LStrip(s))

------------------------------------------------------------------------------
(* The documents *)

DivisionsTexts == {Absent, Some(""), Some("abc"), Some("0"), Some("1"), Some("-1")}

\* the tempo attribute of the first <sound tempo=...> element, if there is one
SoundTempoTexts == {Absent, Some(""), Some("abc"), Some("0"), Some("60"), Some("-120")}

\* the first <metronome>: whether it has a <beat-unit-dot> child, and its <per-minute> text
Metronomes ==
    {Absent,
     Some([dotted |-> FALSE, per_minute |-> Some("30")]),
     Some([dotted |-> TRUE, per_minute |-> Some("30")])}

Entry(grace, rest, pitch, step, alter, octave, duration, voice, lyric) ==
    [grace |-> grace, rest |-> rest, pitch |-> pitch, step |-> step, alter |-> alter,
     octave |-> octave, duration |-> duration, voice |-> voice, lyric |-> lyric]

GraceNote == Entry(TRUE, FALSE, TRUE, Some(<<"A">>), Absent, Some(<<"4">>), Absent, Absent, Absent)
Rest(duration) == Entry(FALSE, TRUE, FALSE, Absent, Absent, Absent, duration, Absent, Absent)
Unpitched(duration) == Entry(FALSE, FALSE, FALSE, Absent, Absent, Absent, duration, Absent, Absent)
Pitched(step, alter, octave, duration, voice, lyric) ==
    Entry(FALSE, FALSE, TRUE, Some(step), alter, Some(octave), duration, voice, lyric)

WholeC4 == Pitched(<<"C">>, Absent, <<"4">>, Some("4"), Absent, Absent)
SungG4 == Pitched(<<"G">>, Some("0"), <<"4">>, Some("1"), Some("2"), Some(<<" ", "l", "a", " ">>))
NoDurationD4 == Pitched(<<"D">>, Absent, <<"4">>, Absent, Some("1"), Absent)
BadDurationE5 == Pitched(<<"E">>, Absent, <<"5">>, Some("abc"), Absent, Absent)
BadOctaveNoDuration == Pitched(<<"F">>, Some("1"), <<"x">>, Some(""), Absent, Absent)
BadOctaveA == Pitched(<<"A">>, Absent, <<"x">>, Some("1"), Absent, Absent)
ZeroE5 == Pitched(<<"E">>, Absent, <<"5">>, Some("0"), Absent, Absent)
SharpE4 == Pitched(<<"E">>, Some("1"), <<"4">>, Some("1"), Absent, Absent)
SungCb4 == Pitched(<<"C">>, Some("-1"), <<"4">>, Some("1"), Absent, Some(<<"t", "i">>))

\* the note entries a document of the pipeline is made of
Entries ==
    {GraceNote, Rest(Some("2")), Rest(Some("abc")), Unpitched(Some("1")),
     WholeC4, SungG4, NoDurationD4, BadDurationE5, BadOctaveNoDuration, BadOctaveA}

\* the note entries of the documents whose timelines are rendered directly
FrameEntries == {WholeC4, SungG4, ZeroE5, SharpE4, SungCb4}

\* the sequences over S of length at most n
SeqsUpTo(S, n) == UNION {[1..k -> S] : k \in 0..n}

FrameDocs ==
    [divisions : {Some("1")}, sound_tempo : {Absent}, metronome : {Absent},
     entries : SeqsUpTo(FrameEntries, MaxFrameNotes), complete : {TRUE}]

------------------------------------------------------------------------------
(* parse_musicxml *)

NoProps == [divisions |-> 0, tempo_bpm |-> 0, seconds_per_division |-> 0]

\* faulty variant: divisions that default to 1 when the element is absent or empty
ReadDivisionsDefaulting(d) ==
    IF MissingText(d.divisions) THEN [error |-> "none", divisions |-> 1]
    ELSE IF ~IsFloatText(TheOf(d.divisions)) THEN [error |-> "ValueError", divisions |-> 0]
    ELSE IF FloatOf(TheOf(d.divisions)) = 0 THEN [error |-> "ValueError", divisions |-> 0]
    ELSE [error |-> "none", divisions |-> FloatOf(TheOf(d.divisions))]

\* lines 76-83: the divisions of the document, or the ValueError
ReadDivisions(d) ==
    IF MissingText(d.divisions) THEN [error |-> "ValueError", divisions |-> 0]
    ELSE IF ~IsFloatText(TheOf(d.divisions)) THEN [error |-> "ValueError", divisions |-> 0]
    ELSE IF FloatOf(TheOf(d.divisions)) = 0 THEN [error |-> "ValueError", divisions |-> 0]
    ELSE [error |-> "none", divisions |-> FloatOf(TheOf(d.divisions))]

\* lines 87-93: the text the tempo is converted from, Absent when the default stands.
\* The metronome path selects the <per-minute> of a <metronome> that has a
\* <beat-unit-dot> child, and of no other.
TempoText(d) ==
    IF d.sound_tempo # Absent /\ TheOf(d.sound_tempo) # ""
    THEN d.sound_tempo
    ELSE IF /\ d.metronome # Absent
            /\ TheOf(d.metronome).dotted
            /\ ~MissingText(TheOf(d.metronome).per_minute)
         THEN TheOf(d.metronome).per_minute
         ELSE Absent

\* lines 85-93, the conversion of the tempo text tt: the tempo, or the ValueError of float()
TempoFrom(tt) ==
    IF tt = Absent THEN [error |-> "none", tempo_bpm |-> DefaultTempoBpm]
    ELSE IF ~IsFloatText(TheOf(tt)) THEN [error |-> "ValueError", tempo_bpm |-> 0]
    ELSE [error |-> "none", tempo_bpm |-> FloatOf(TheOf(tt))]

\* lines 85-93: the tempo of the document
ReadTempo(d) == TempoFrom(TempoText(d))

\* line 95, with the divisions dv and the tempo tp read before it
PropertiesFrom(dv, tp) ==
    IF dv.error # "none" THEN [error |-> dv.error, props |-> NoProps]
    ELSE IF tp.error # "none" THEN [error |-> tp.error, props |-> NoProps]
    ELSE IF tp.tempo_bpm = 0 THEN [error |-> "ZeroDivisionError", props |-> NoProps]
    ELSE [error |-> "none",
          props |-> [divisions |-> dv.divisions,
                     tempo_bpm |-> tp.tempo_bpm,
                     seconds_per_division |->
                         (MsPerMinute \div tp.tempo_bpm) \div dv.divisions]]

\* the try block of lines 74-100: the exception it raises, or the properties
\* (a failure to read the divisions is raised before the tempo is looked at)
ReadProperties(d) == PropertiesFrom(ReadDivisions(d), ReadTempo(d))

\* the accidental of a note name
Accidental(alter) ==
    IF alter = 1 THEN <<"#">>
    ELSE IF alter = 2 THEN <<"#", "#">>
    ELSE IF alter = -1 THEN <<"b">>
    ELSE IF alter = -2 THEN <<"b", "b">>
    ELSE <<>>

\* the alter of a pitch: int(float(text)), 0 when the text is absent, empty or not a number
AlterOf(e) ==
    IF ~MissingText(e.alter) /\ IsFloatText(TheOf(e.alter)) THEN FloatOf(TheOf(e.alter)) ELSE 0

NoteName(e) == TheOf(e.step) \o Accidental(AlterOf(e)) \o TheOf(e.octave)

\* the first lyric text of a note, stripped, or None
LyricText(e) == IF MissingChars(e.lyric) THEN Absent ELSE Some(Strip(TheOf(e.lyric)))

\* what one pass of the loop body does with a note entry:
\* "skip" (continue), "advance" (a rest moves the clock), "emit" (an event), "raise"
EntryOutcome(e) ==
    IF e.grace THEN "skip"
    ELSE IF e.rest
    THEN IF ~MissingText(e.duration) /\ IsFloatText(TheOf(e.duration)) THEN "advance" ELSE "skip"
    ELSE IF ~e.pitch THEN "skip"
    ELSE IF MissingChars(e.step) \/ MissingChars(e.octave) THEN "skip"
    ELSE IF MissingText(e.duration) THEN "skip"
    ELSE IF ~IsFloatText(TheOf(e.duration)) THEN "skip"
    ELSE IF ~IsIntChars(TheOf(e.octave)) THEN "raise"
    ELSE IF ~MissingText(e.voice) /\ ~IsIntText(TheOf(e.voice)) THEN "raise"
    ELSE "emit"

\* faulty variant: a duration counted at the default tempo, one division to the quarter note
NoteEventDefaultTempo(e, time, spd) ==
    [note |-> NoteName(e),
     start_time |-> time,
     duration |-> FloatOf(TheOf(e.duration)) * (MsPerMinute \div DefaultTempoBpm),
     pitch |-> <<TheOf(e.step), IntOfChars(TheOf(e.octave)), AlterOf(e)>>,
     voice |-> IF MissingText(e.voice) THEN DefaultVoice ELSE IntOf(TheOf(e.voice)),
     text |-> LyricText(e)]

NoteEvent(e, time, spd) ==
    [note |-> NoteName(e),
     start_time |-> time,
     duration |-> FloatOf(TheOf(e.duration)) * spd,
     pitch |-> <<TheOf(e.step), IntOfChars(TheOf(e.octave)), AlterOf(e)>>,
     voice |-> IF MissingText(e.voice) THEN DefaultVoice ELSE IntOf(TheOf(e.voice)),
     text |-> LyricText(e)]

\* faulty variant: an event that leaves the clock where it is
ApplyOutcomeNoteKeepsClock(st, e, spd, outcome) ==
    IF outcome = "skip" THEN st
    ELSE IF outcome = "advance"
    THEN [st EXCEPT !.current_time = @ + FloatOf(TheOf(e.duration)) * spd]
    ELSE IF outcome = "raise"
    THEN [st EXCEPT !.error = "ValueError"]
    ELSE [st EXCEPT !.notes = Append(@, NoteEvent(e, st.current_time, spd))]

\* faulty variant: a rest that leaves the clock where it is
ApplyOutcomeRestIgnored(st, e, spd, outcome) ==
    IF outcome = "skip" \/ outcome = "advance" THEN st
    ELSE IF outcome = "raise"
    THEN [st EXCEPT !.error = "ValueError"]
    ELSE [st EXCEPT !.notes = Append(@, NoteEvent(e, st.current_time, spd)),
                    !.current_time = @ + FloatOf(TheOf(e.duration)) * spd]

\* faulty variant: a skipped pitched note that moves the clock by one division
ApplyOutcomeSkipAdvances(st, e, spd, outcome) ==
    IF outcome = "skip"
    THEN (IF e.pitch /\ ~e.grace THEN [st EXCEPT !.current_time = @ + spd] ELSE st)
    ELSE IF outcome = "advance"
    THEN [st EXCEPT !.current_time = @ + FloatOf(TheOf(e.duration)) * spd]
    ELSE IF outcome = "raise"
    THEN [st EXCEPT !.error = "ValueError"]
    ELSE [st EXCEPT !.notes = Append(@, NoteEvent(e, st.current_time, spd)),
                    !.current_time = @ + FloatOf(TheOf(e.duration)) * spd]

\* the effect of an entry whose outcome is known on st = [notes, current_time, error]
ApplyOutcome(st, e, spd, outcome) ==
    IF outcome = "skip" THEN st
    ELSE IF outcome = "advance"
    THEN [st EXCEPT !.current_time = @ + FloatOf(TheOf(e.duration)) * spd]
    ELSE IF outcome = "raise"
    THEN [st EXCEPT !.error = "ValueError"]
    ELSE [st EXCEPT !.notes = Append(@, NoteEvent(e, st.current_time, spd)),
                    !.current_time = @ + FloatOf(TheOf(e.duration)) * spd]

\* one pass of the loop body over entry e, from the state st = [notes, current_time, error]
ProcessNote(st, e, spd) == ApplyOutcome(st, e, spd, EntryOutcome(e))

\* faulty variant: a list and a clock that outlive the call
ParseLocalsKept == [notes |-> notes, current_time |-> current_time, error |-> "none"]

\* the locals parse_musicxml starts with
ParseLocals == [notes |-> <<>>, current_time |-> 0, error |-> "none"]

\* the loop over the note entries, entry i onwards
RECURSIVE WalkEntries(_, _, _, _)
WalkEntries(st, entries, i, spd) ==
    IF i > Len(entries) \/ st.error # "none" THEN st
    ELSE WalkEntries(ProcessNote(st, entries[i], spd), entries, i + 1, spd)

\* what parse_musicxml leaves once the loop has ended in st: nothing of the list when it raised
Returned(st) == IF st.error # "none" THEN [st EXCEPT !.notes = <<>>] ELSE st

\* the loop and the return, after the properties r
DecodeWith(r, entries) ==
    IF r.error # "none" THEN [notes |-> <<>>, current_time |-> 0, error |-> r.error]
    ELSE Returned(WalkEntries(ParseLocals, entries, 1, r.props.seconds_per_division))

\* parse_musicxml as a function of the document: the exception raised, or the timeline
Decode(d) == DecodeWith(ReadProperties(d), d.entries)

------------------------------------------------------------------------------
(* The fingerboard *)

NOTE_COLOR == "NOTE_COLOR"
HIGHLIGHT_COLOR == "HIGHLIGHT_COLOR"

\* the dictionary literal, as its key: value pairs in source order
NOTE_POSITIONS_ITEMS ==
    <<
      <<<<"G", "3">>, <<0, 0>>>>, <<<<"G", "#", "3">>, <<1, 0>>>>, <<<<"A", "3">>, <<2, 0>>>>, <<<<"A", "#", "3">>, <<3, 0>>>>,
      <<<<"B", "3">>, <<4, 0>>>>, <<<<"C", "4">>, <<5, 0>>>>, <<<<"C", "#", "4">>, <<6, 0>>>>, <<<<"D", "4">>, <<7, 0>>>>,
      <<<<"D", "#", "4">>, <<8, 0>>>>, <<<<"E", "4">>, <<9, 0>>>>, <<<<"F", "4">>, <<10, 0>>>>, <<<<"F", "#", "4">>, <<11, 0>>>>,
      <<<<"G", "4">>, <<12, 0>>>>, <<<<"G", "#", "4">>, <<13, 0>>>>, <<<<"A", "4">>, <<14, 0>>>>, <<<<"A", "#", "4">>, <<15, 0>>>>,
      <<<<"D", "4">>, <<0, 1>>>>, <<<<"D", "#", "4">>, <<1, 1>>>>, <<<<"E", "4">>, <<2, 1>>>>, <<<<"F", "4">>, <<3, 1>>>>,
      <<<<"F", "#", "4">>, <<4, 1>>>>, <<<<"G", "4">>, <<5, 1>>>>, <<<<"G", "#", "4">>, <<6, 1>>>>, <<<<"A", "4">>, <<7, 1>>>>,
      <<<<"A", "#", "4">>, <<8, 1>>>>, <<<<"B", "4">>, <<9, 1>>>>, <<<<"C", "5">>, <<10, 1>>>>, <<<<"C", "#", "5">>, <<11, 1>>>>,
      <<<<"D", "5">>, <<12, 1>>>>, <<<<"D", "#", "5">>, <<13, 1>>>>, <<<<"E", "5">>, <<14, 1>>>>, <<<<"F", "5">>, <<15, 1>>>>,
      <<<<"A", "4">>, <<0, 2>>>>, <<<<"A", "#", "4">>, <<1, 2>>>>, <<<<"B", "4">>, <<2, 2>>>>, <<<<"C", "5">>, <<3, 2>>>>,
      <<<<"C", "#", "5">>, <<4, 2>>>>, <<<<"D", "5">>, <<5, 2>>>>, <<<<"D", "#", "5">>, <<6, 2>>>>, <<<<"E", "5">>, <<7, 2>>>>,
      <<<<"F", "5">>, <<8, 2>>>>, <<<<"F", "#", "5">>, <<9, 2>>>>, <<<<"G", "5">>, <<10, 2>>>>, <<<<"G", "#", "5">>, <<11, 2>>>>,
      <<<<"A", "5">>, <<12, 2>>>>, <<<<"A", "#", "5">>, <<13, 2>>>>, <<<<"B", "5">>, <<14, 2>>>>, <<<<"C", "6">>, <<15, 2>>>>,
      <<<<"E", "5">>, <<0, 3>>>>, <<<<"F", "5">>, <<1, 3>>>>, <<<<"F", "#", "5">>, <<2, 3>>>>, <<<<"G", "5">>, <<3, 3>>>>,
      <<<<"G", "#", "5">>, <<4, 3>>>>, <<<<"A", "5">>, <<5, 3>>>>, <<<<"A", "#", "5">>, <<6, 3>>>>, <<<<"B", "5">>, <<7, 3>>>>,
      <<<<"C", "6">>, <<8, 3>>>>, <<<<"C", "#", "6">>, <<9, 3>>>>, <<<<"D", "6">>, <<10, 3>>>>, <<<<"D", "#", "6">>, <<11, 3>>>>,
      <<<<"E", "6">>, <<12, 3>>>>, <<<<"F", "6">>, <<13, 3>>>>, <<<<"F", "#", "6">>, <<14, 3>>>>, <<<<"G", "6">>, <<15, 3>>>>
    >>

\* the value of the last of the pairs items[1..i] whose key is name, Absent when there is none
RECURSIVE LastValue(_, _, _)
LastValue(items, name, i) ==
    IF i = 0 THEN Absent
    ELSE IF items[i][1] = name THEN Some(items[i][2])
    ELSE LastValue(items, name, i - 1)

\* faulty variant: of the pairs with one key, the first stands
DictGetFirst(items, name) ==
    IF \A i \in DOMAIN items : items[i][1] # name THEN Absent
    ELSE Some(items[CHOOSE i \in DOMAIN items :
                        /\ items[i][1] = name
                        /\ \A j \in 1..(i - 1) : items[j][1] # name][2])

\* dict.get on a dictionary literal: of the pairs with one key, the last stands
DictGet(items, name) == LastValue(items, name, Len(items))

\* the dictionary the literal builds: one value for each key
NOTE_POSITIONS ==
    [name \in {NOTE_POSITIONS_ITEMS[i][1] : i \in DOMAIN NOTE_POSITIONS_ITEMS} |->
        TheOf(DictGet(NOTE_POSITIONS_ITEMS, name))]

\* NOTE_POSITIONS.get(name)
PositionsGet(name) ==
    IF name \in DOMAIN NOTE_POSITIONS THEN Some(NOTE_POSITIONS[name]) ELSE Absent

\* faulty variant: every flat sign is removed, not only the doubled ones
StripDoublesAndFlats(note_name) == Replace(Replace(note_name, <<"#", "#">>, <<>>), <<"b">>, <<>>)

\* line 238: the double sharps and double flats are removed
StripDoubles(note_name) == Replace(Replace(note_name, <<"#", "#">>, <<>>), <<"b", "b">>, <<>>)

\* lines 239-242 on the stripped name, last being note_name[-1]: the rewritten name, or
\* the ValueError of int(note_name[-1])
RewriteEnharmonic(stripped, last) ==
    IF Contains(stripped, <<"C", "b">>)
    THEN IF IsDigit(last)
         THEN [raised |-> FALSE,
               name |-> Replace(stripped, <<"C", "b">>, <<"B">> \o IntToChars(DigitValue(last) - 1))]
         ELSE [raised |-> TRUE, name |-> <<>>]
    ELSE IF Contains(stripped, <<"B", "#">>)
    THEN IF IsDigit(last)
         THEN [raised |-> FALSE,
               name |-> Replace(stripped, <<"B", "#">>, <<"C">> \o IntToChars(DigitValue(last) + 1))]
         ELSE [raised |-> TRUE, name |-> <<>>]
    ELSE IF Contains(stripped, <<"F", "b">>)
    THEN [raised |-> FALSE, name |-> Replace(stripped, <<"F", "b">>, <<"E", last>>)]
    ELSE IF Contains(stripped, <<"E", "#">>)
    THEN [raised |-> FALSE, name |-> Replace(stripped, <<"E", "#">>, <<"F", last>>)]
    ELSE [raised |-> FALSE, name |-> stripped]

\* lines 238-242: the name looked up when the note name is not in the table
SimplifiedName(note_name) == RewriteEnharmonic(StripDoubles(note_name), note_name[Len(note_name)])

\* line 243: the second lookup, with the simplified name
LookupSimplified(simplified) ==
    IF simplified.raised THEN [raised |-> TRUE, pos |-> Absent]
    ELSE [raised |-> FALSE, pos |-> PositionsGet(simplified.name)]

\* lines 236-243, direct being the outcome of the first lookup
OrSimplified(direct, note_name) ==
    IF direct # Absent THEN [raised |-> FALSE, pos |-> direct]
    ELSE LookupSimplified(SimplifiedName(note_name))

\* lines 233-243, the position of a note: [raised, pos], pos Absent or the (fret, string) pair
ResolvePosition(note_name) == OrSimplified(PositionsGet(note_name), note_name)

\* faulty variant: the frets from 5 on labelled with the fret number itself
FretLabelFretNumber(pos_x_fret) ==
    IF pos_x_fret = 0 THEN <<"0">>
    ELSE IF pos_x_fret = 1 THEN <<"-", "1">>
    ELSE IF pos_x_fret = 2 THEN <<"1">>
    ELSE IF pos_x_fret = 3 THEN <<"2">>
    ELSE IF pos_x_fret = 4 THEN <<"2", "+">>
    ELSE IntToChars(pos_x_fret)

\* the finger-position label of a fret
FretLabel(pos_x_fret) ==
    IF pos_x_fret = 0 THEN <<"0">>
    ELSE IF pos_x_fret = 1 THEN <<"-", "1">>
    ELSE IF pos_x_fret = 2 THEN <<"1">>
    ELSE IF pos_x_fret = 3 THEN <<"2">>
    ELSE IF pos_x_fret = 4 THEN <<"2", "+">>
    ELSE IntToChars(pos_x_fret - 2)

\* Python's note_info.get("text") or other
TextOr(note_info, other) ==
    IF note_info.text # Absent /\ TheOf(note_info.text) # <<>> THEN TheOf(note_info.text) ELSE other

------------------------------------------------------------------------------
(* create_fingerboard_frame *)

\* the font ImageFont loads: a file, or the built-in default after the IOError
LoadFont(e) ==
    IF e.cwd_font THEN "arial.ttf"
    ELSE IF e.task_root /\ e.root_font THEN "LAMBDA_TASK_ROOT/arial.ttf"
    ELSE "default"

\* faulty variant: the end instant of a note counted as active
ActiveNotesClosedEnd(ns, t) ==
    SelectSeq(ns, LAMBDA n : n.start_time <= t /\ t <= n.start_time + n.duration)

\* the list active_notes_this_frame
ActiveNotes(ns, t) ==
    SelectSeq(ns, LAMBDA n : n.start_time <= t /\ t < n.start_time + n.duration)

\* Python's "x in list": equality with some member
InList(x, list) == \E j \in 1..Len(list) : list[j] = x

\* f"{current_time:.2f}": the time in hundredths of a second (the model's times are
\* multiples of 10 ms, so that no rounding tie arises)
FormatTime(t) == (t + 5) \div 10

BlankCanvas == [raised |-> FALSE, markers |-> <<>>, labels |-> {}]

\* lines 246-279: the marker of a note at coord is painted over whatever is there, and an
\* active note gets its label
Paint(canvas, note_info, coord, is_active, font) ==
    [canvas EXCEPT
        !.markers = [c \in (DOMAIN @) \cup {coord} |->
                        IF c = coord
                        THEN (IF is_active THEN HIGHLIGHT_COLOR ELSE NOTE_COLOR)
                        ELSE @[c]],
        !.labels = IF is_active
                   THEN @ \cup {[at |-> coord,
                                 text |-> TextOr(note_info, note_info.pitch[1] \o FretLabel(coord[1])),
                                 font |-> font]}
                   ELSE @]

\* faulty variant: a note with no position is drawn at the open G string
DrawNoteDefaultPosition(canvas, note_info, r, is_active, font) ==
    IF r.raised THEN [canvas EXCEPT !.raised = TRUE]
    ELSE IF r.pos = Absent THEN Paint(canvas, note_info, <<0, 0>>, is_active, font)
    ELSE Paint(canvas, note_info, TheOf(r.pos), is_active, font)

\* lines 229-281, one pass of the loop body, r being the outcome of the position lookup
DrawNote(canvas, note_info, r, is_active, font) ==
    IF r.raised THEN [canvas EXCEPT !.raised = TRUE]
    ELSE IF r.pos = Absent THEN canvas
    ELSE Paint(canvas, note_info, TheOf(r.pos), is_active, font)

\* lines 229-281: the loop over the notes, note i onwards
RECURSIVE DrawNotes(_, _, _, _, _)
DrawNotes(canvas, ns, active, i, font) ==
    IF i > Len(ns) \/ canvas.raised THEN canvas
    ELSE DrawNotes(DrawNote(canvas, ns[i], ResolvePosition(ns[i].note),
                            InList(ns[i], active), font),
                   ns, active, i + 1, font)

RaisedFrame ==
    [raised |-> TRUE, scaffold |-> FALSE, markers |-> <<>>, labels |-> {},
     title |-> Absent, font |-> "none"]

\* np.zeros((720, 1280, 3)): the all-black frame of the blank clip
ZerosFrame ==
    [raised |-> FALSE, scaffold |-> FALSE, markers |-> <<>>, labels |-> {},
     title |-> Absent, font |-> "none"]

\* faulty variant: no title is drawn while no note is playing
ComposeFrameTitleWhenPlaying(canvas, active, t, font) ==
    IF canvas.raised THEN RaisedFrame
    ELSE [raised |-> FALSE,
          scaffold |-> TRUE,
          markers |-> canvas.markers,
          labels |-> canvas.labels,
          title |-> IF active = <<>> THEN Absent
                    ELSE Some([time |-> FormatTime(t),
                               playing |-> [j \in 1..Len(active) |-> TextOr(active[j], active[j].note)]]),
          font |-> font]

\* lines 190-220 and 284-311: the scaffold, what the loop drew, and the title
ComposeFrame(canvas, active, t, font) ==
    IF canvas.raised THEN RaisedFrame
    ELSE [raised |-> FALSE,
          scaffold |-> TRUE,
          markers |-> canvas.markers,
          labels |-> canvas.labels,
          title |-> Some([time |-> FormatTime(t),
                          playing |-> [j \in 1..Len(active) |-> TextOr(active[j], active[j].note)]]),
          font |-> font]

\* what create_fingerboard_frame draws on a canvas, the active list and the font given
RenderOn(canvas, ns, active, t, font) ==
    ComposeFrame(DrawNotes(canvas, ns, active, 1, font), active, t, font)

\* faulty variant: a canvas kept between calls: the call draws over what the last call drew
CreateFingerboardFrameOnLastCanvas(ns, t, e) ==
    RenderOn([raised |-> FALSE, markers |-> frame.out.markers, labels |-> frame.out.labels],
             ns, ActiveNotes(ns, t), t, LoadFont(e))

\* the frame create_fingerboard_frame(notes, current_time) returns with the fonts of e
CreateFingerboardFrame(ns, t, e) == RenderOn(BlankCanvas, ns, ActiveNotes(ns, t), t, LoadFont(e))

------------------------------------------------------------------------------
(* make_video *)

\* faulty variant: a blank clip that renders the empty fingerboard
BlankClipScaffold ==
    [make_frame |-> "create_fingerboard_frame", duration |-> BlankClipSeconds * SecondMs]

\* blank_clip: VideoClip(lambda t: np.zeros(...), duration=1)
BlankClip == [make_frame |-> "zeros", duration |-> BlankClipSeconds * SecondMs]

\* faulty variant: the duration without the trailing second
CalculatedDurationNoBuffer(ns, duration) ==
    IF duration = Absent
    THEN ns[Len(ns)].start_time + ns[Len(ns)].duration
    ELSE TheOf(duration)

\* calculated_duration, for a list that holds a note
CalculatedDuration(ns, duration) ==
    IF duration = Absent
    THEN ns[Len(ns)].start_time + ns[Len(ns)].duration + BufferSeconds * SecondMs
    ELSE TheOf(duration)

\* clip: VideoClip(lambda t: create_fingerboard_frame(notes, t), duration=calculated_duration)
FingerboardClip(ns, duration) ==
    [make_frame |-> "create_fingerboard_frame", duration |-> CalculatedDuration(ns, duration)]

\* clip.make_frame(t)
ClipFrame(clip, ns, t, e) ==
    IF clip.make_frame = "zeros" THEN ZerosFrame ELSE CreateFingerboardFrame(ns, t, e)

\* the times write_videofile samples: 0, 1/fps, 2/fps, ... below the clip's duration
SampleTimes(duration, fps) ==
    LET step == SecondMs \div fps
        n == IF duration <= 0 THEN 0 ELSE ((duration - 1) \div step) + 1
    IN [k \in 1..n |-> (k - 1) * step]

\* the frames of the clip at the sampled times
ClipFrames(clip, ns, times, e) == [k \in 1..Len(times) |-> ClipFrame(clip, ns, times[k], e)]

\* the outcome of the write: it raises when a frame raised or the encoder failed
Written(frames, encoder_ok) ==
    [frames |-> frames,
     raised |-> (\E k \in 1..Len(frames) : frames[k].raised) \/ ~encoder_ok]

\* clip.write_videofile(output_file, fps=fps): the frames handed to the encoder, and whether
\* the call raised
WriteVideofile(clip, ns, fps, e, encoder_ok) ==
    Written(ClipFrames(clip, ns, SampleTimes(clip.duration, fps), e), encoder_ok)

NoVideo ==
    [called |-> FALSE, fps |-> 0, explicit_duration |-> Absent, make_frame |-> "none",
     duration |-> 0, frames |-> <<>>, writes |-> 0, raised |-> FALSE, returned |-> FALSE]

\* the clip make_video builds: the blank one for an empty list
ClipOf(ns, duration) == IF ns = <<>> THEN BlankClip ELSE FingerboardClip(ns, duration)

\* faulty variant: a failed write is logged and the output file is returned all the same
VideoOfSwallowing(clip, w, fps, duration) ==
    [called |-> TRUE, fps |-> fps, explicit_duration |-> duration,
     make_frame |-> clip.make_frame, duration |-> clip.duration,
     frames |-> w.frames, writes |-> 1, raised |-> FALSE, returned |-> TRUE]

\* what make_video did: the clip, the one write w it attempted, whether it raised or
\* returned output_file
VideoOf(clip, w, fps, duration) ==
    [called |-> TRUE, fps |-> fps, explicit_duration |-> duration,
     make_frame |-> clip.make_frame, duration |-> clip.duration,
     frames |-> w.frames, writes |-> 1, raised |-> w.raised, returned |-> ~w.raised]

\* the write of the clip make_video built
WriteClip(clip, ns, fps, duration, e, encoder_ok) ==
    VideoOf(clip, WriteVideofile(clip, ns, fps, e, encoder_ok), fps, duration)

\* make_video(notes, output_file, fps, duration)
MakeVideo(ns, fps, duration, e, encoder_ok) ==
    WriteClip(ClipOf(ns, duration), ns, fps, duration, e, encoder_ok)

------------------------------------------------------------------------------
(* The state the program starts in *)

FontEnvs == [cwd_font : BOOLEAN, task_root : BOOLEAN, root_font : BOOLEAN]

\* a Lambda deployment whose package holds no arial.ttf
LambdaEnv == [cwd_font |-> FALSE, task_root |-> TRUE, root_font |-> FALSE]

NoCall == [called |-> FALSE, t |-> 0, active |-> <<>>, font |-> "none", out |-> ZerosFrame]

\* no lookup asked for
NoLookup == [label |-> <<>>, called |-> FALSE, out |-> [raised |-> FALSE, pos |-> Absent]]

\* no invocation of the handler
NoEvent == [kind |-> "none", file_content |-> Absent, filename |-> Absent]
NoSession == [created |-> FALSE, exists |-> FALSE, files |-> {}, cleanup |-> "none"]
NoProcessor ==
    [constructed |-> FALSE, omr |-> "none", encoder |-> "none", calls |-> <<>>,
     result |-> Absent]

HandlerIdle ==
    /\ event = NoEvent
    /\ session = NoSession
    /\ processor = NoProcessor
    /\ response = Absent

\* the frame rates and explicit durations (ms) the model gives to make_video
FpsArgs == {FrameRate}
ExplicitDurations == {2 * SecondMs}

Init ==
    /\ doc \in [divisions : DivisionsTexts, sound_tempo : SoundTempoTexts,
                metronome : Metronomes, entries : {<<>>}, complete : {FALSE}]
    /\ pc = "start"
    /\ caller = "none"
    /\ idx = 0
    /\ notes = <<>>
    /\ current_time = 0
    /\ props = NoProps
    /\ timeline = Absent
    /\ error = "none"
    /\ video = NoVideo
    /\ env = LambdaEnv
    /\ frame = NoCall
    /\ prev_frame = NoCall
    /\ first = Absent
    /\ resolve = NoLookup
    /\ HandlerIdle

------------------------------------------------------------------------------
(* parse_musicxml, step by step *)

\* the state after the properties were read with outcome r
StartWith(r) ==
    /\ notes' = ParseLocals.notes
    /\ current_time' = ParseLocals.current_time
    /\ props' = r.props
    /\ error' = r.error
    /\ pc' = IF r.error = "none" THEN "measures" ELSE "failed"

\* lines 58-100: the document is read, the locals are set, divisions and tempo are read
ParseStart ==
    /\ pc = "start"
    /\ StartWith(ReadProperties(doc))
    /\ idx' = 0
    /\ UNCHANGED <<others, doc, caller, timeline, video, env, frame, prev_frame, first>>

\* The entries of the document come to light as the decode walks them: the next entry
\* is the recorded one, or, past the recorded ones of a document whose end is not yet
\* known, any entry.
NextEntries ==
    IF idx < Len(doc.entries) THEN {doc.entries[idx + 1]}
    ELSE IF ~doc.complete /\ Len(doc.entries) < MaxEntries THEN Entries
    ELSE {}

\* the state after one pass of the loop body left the locals st
StepWith(st) ==
    /\ notes' = st.notes
    /\ current_time' = st.current_time
    /\ error' = st.error
    /\ pc' = IF st.error = "none" THEN "measures" ELSE "failed"

\* lines 103-182: one pass of the loop body
ParseNote ==
    /\ pc = "measures"
    /\ \E e \in NextEntries :
        /\ doc' = IF idx < Len(doc.entries) THEN doc ELSE [doc EXCEPT !.entries = Append(@, e)]
        /\ StepWith(ProcessNote([notes |-> notes, current_time |-> current_time,
                                 error |-> "none"], e, props.seconds_per_division))
    /\ idx' = idx + 1
    /\ UNCHANGED <<others, caller, props, timeline, video, env, frame, prev_frame, first>>

\* lines 184-185: the loop is over, the list is returned
ParseReturn ==
    /\ pc = "measures"
    /\ idx = Len(doc.entries)
    /\ doc' = [doc EXCEPT !.complete = TRUE]
    /\ timeline' = Some(notes)
    /\ pc' = "parsed"
    /\ UNCHANGED <<others, caller, idx, notes, current_time, props, error, video, env, frame,
                   prev_frame, first>>

------------------------------------------------------------------------------
(* The callers of make_video *)

\* what a caller does with the outcome of make_video
AfterMakeVideo(who, v) ==
    /\ caller' = who
    /\ video' = v
    /\ pc' = IF v.raised THEN "failed" ELSE "done"
    /\ error' = IF v.raised THEN "Exception" ELSE "none"
    /\ UNCHANGED <<others, doc, idx, notes, current_time, props, timeline, env, frame, prev_frame,
                   first>>

\* main, lines 372-380: no video for an empty list, else make_video(notes, output, fps)
MainGenerate ==
    /\ pc = "parsed"
    /\ IF TheOf(timeline) = <<>>
       THEN /\ caller' = "main"
            /\ pc' = "done"
            /\ UNCHANGED <<others, doc, idx, notes, current_time, props, timeline, error, video,
                           env, frame, prev_frame, first>>
       ELSE \E fps \in FpsArgs, encoder_ok \in BOOLEAN :
                AfterMakeVideo("main", MakeVideo(TheOf(timeline), fps, Absent, env, encoder_ok))

\* FileProcessor.process_uploaded_file, lines 187-203: make_video(notes, output_file=...)
ProcessGenerate ==
    /\ pc = "parsed"
    /\ \E fps \in FpsArgs, encoder_ok \in BOOLEAN :
           AfterMakeVideo("process_uploaded_file",
                          MakeVideo(TheOf(timeline), fps, Absent, env, encoder_ok))

\* a call of make_video that gives the duration
DirectMakeVideo ==
    /\ pc = "parsed"
    /\ \E fps \in FpsArgs, d \in ExplicitDurations, encoder_ok \in BOOLEAN :
           AfterMakeVideo("api", MakeVideo(TheOf(timeline), fps, Some(d), env, encoder_ok))

Next ==
    \/ ParseStart
    \/ ParseNote
    \/ ParseReturn
    \/ MainGenerate
    \/ ProcessGenerate
    \/ DirectMakeVideo

Spec == Init /\ [][Next]_vars

------------------------------------------------------------------------------
(* The document decoded twice *)

\* a caller keeps the outcome of the first decode and calls parse_musicxml on the same
\* document again; what the first call left in memory is whatever it was
DecodeAgain ==
    /\ pc \in {"parsed", "failed"}
    /\ first = Absent
    /\ first' = Some([error |-> error, timeline |-> timeline])
    /\ pc' = "start"
    /\ timeline' = Absent
    /\ error' = "none"
    /\ UNCHANGED <<others, doc, caller, idx, notes, current_time, props, video, env, frame, prev_frame>>

DecodeTwiceNext ==
    \/ ParseStart
    \/ ParseNote
    \/ ParseReturn
    \/ DecodeAgain

DecodeTwiceSpec == Init /\ [][DecodeTwiceNext]_vars

------------------------------------------------------------------------------
(* create_fingerboard_frame called directly on decoded timelines *)

QueryTimes == {k * QueryStep : k \in 0..MaxQuery}

\* the state after parse_musicxml returned the timeline of d
DecodedState(d, st) ==
    /\ doc = d
    /\ idx = Len(d.entries)
    /\ notes = st.notes
    /\ current_time = st.current_time
    /\ timeline = Some(st.notes)
    /\ error = st.error

FrameInit ==
    /\ \E d \in FrameDocs : DecodedState(d, Decode(d))
    /\ props = ReadProperties(doc).props
    /\ pc = "render"
    /\ caller = "api"
    /\ video = NoVideo
    /\ env = LambdaEnv
    /\ frame = NoCall
    /\ prev_frame = NoCall
    /\ first = Absent
    /\ resolve = NoLookup
    /\ HandlerIdle

\* create_fingerboard_frame(notes, t); an earlier call is remembered, the one just
\* replaced or the one remembered before
RenderFrame ==
    /\ pc = "render"
    /\ \E t \in QueryTimes :
        frame' = [called |-> TRUE, t |-> t, active |-> ActiveNotes(TheOf(timeline), t),
                  font |-> LoadFont(env),
                  out |-> CreateFingerboardFrame(TheOf(timeline), t, env)]
    /\ prev_frame' \in {prev_frame, frame}
    /\ UNCHANGED <<others, doc, pc, caller, idx, notes, current_time, props, timeline, error, video,
                   env, first>>

\* between two calls a font file appears or disappears, or LAMBDA_TASK_ROOT is set or unset
ChangeFontEnv ==
    /\ pc = "render"
    /\ env' \in {[env EXCEPT !.cwd_font = ~@], [env EXCEPT !.task_root = ~@],
                 [env EXCEPT !.root_font = ~@]}
    /\ UNCHANGED <<others, doc, pc, caller, idx, notes, current_time, props, timeline, error, video,
                   frame, prev_frame, first>>

FrameNext ==
    \/ RenderFrame
    \/ ChangeFontEnv

FrameSpec == FrameInit /\ [][FrameNext]_vars

------------------------------------------------------------------------------
(* The position lookup of create_fingerboard_frame on one note name *)

Steps == {"A", "B", "C", "D", "E", "F", "G"}
Accidentals == {<<>>, <<"#">>, <<"#", "#">>, <<"b">>, <<"b", "b">>}
Octaves == 2..MaxOctave

\* the note names f"{step}{accidental}{octave}" of the lookups
Labels == {<<st>> \o acc \o IntToChars(o) : st \in Steps, acc \in Accidentals, o \in Octaves}

ResolveInit ==
    /\ resolve \in {[NoLookup EXCEPT !.label = l] : l \in Labels}
    /\ doc = [divisions |-> Some("1"), sound_tempo |-> Absent, metronome |-> Absent,
              entries |-> <<>>, complete |-> TRUE]
    /\ pc = "resolve"
    /\ caller = "api"
    /\ idx = 0
    /\ notes = <<>>
    /\ current_time = 0
    /\ props = NoProps
    /\ timeline = Absent
    /\ error = "none"
    /\ video = NoVideo
    /\ env = LambdaEnv
    /\ frame = NoCall
    /\ prev_frame = NoCall
    /\ first = Absent
    /\ HandlerIdle

\* lines 230-243: the position of the note name is looked up
Resolve ==
    /\ pc = "resolve"
    /\ ~resolve.called
    /\ resolve' = [resolve EXCEPT !.called = TRUE, !.out = ResolvePosition(resolve.label)]
    /\ UNCHANGED <<doc, pc, caller, idx, notes, current_time, props, timeline, error, video,
                   env, frame, prev_frame, first, event, session, processor, response>>

ResolveNext == Resolve

ResolveSpec == ResolveInit /\ [][ResolveNext]_vars

------------------------------------------------------------------------------
(* create_fingerboard_frame called on the timeline of a document of one note *)

\* the <alter> texts of the accidentals
AlterTexts == {Absent, Some("1"), Some("2"), Some("-1"), Some("-2")}
LyricTexts == {Absent, Some(<<"l", "a">>)}

\* the documents of one note of one tick, of every step, alter and octave
OneNoteDocs ==
    {[divisions |-> Some("1"), sound_tempo |-> Absent, metronome |-> Absent,
      entries |-> <<Pitched(<<st>>, a, IntToChars(o), Some("1"), Absent, ly)>>,
      complete |-> TRUE] :
        st \in Steps, a \in AlterTexts, o \in Octaves, ly \in LyricTexts}

OneNoteInit ==
    /\ \E d \in OneNoteDocs : DecodedState(d, Decode(d))
    /\ props = ReadProperties(doc).props
    /\ pc = "render"
    /\ caller = "api"
    /\ video = NoVideo
    /\ env = LambdaEnv
    /\ frame = NoCall
    /\ prev_frame = NoCall
    /\ first = Absent
    /\ resolve = NoLookup
    /\ HandlerIdle

OneNoteNext == RenderFrame

OneNoteSpec == OneNoteInit /\ [][OneNoteNext]_vars

------------------------------------------------------------------------------
(* The texts and bytes the handler and the FileProcessor work on *)

UpperCase == <<"A", "B", "C", "D", "E", "F", "G", "H", "I", "J", "K", "L", "M",
               "N", "O", "P", "Q", "R", "S", "T", "U", "V", "W", "X", "Y", "Z">>
LowerCase == <<"a", "b", "c", "d", "e", "f", "g", "h", "i", "j", "k", "l", "m",
               "n", "o", "p", "q", "r", "s", "t", "u", "v", "w", "x", "y", "z">>

\* str.lower() on one character
LowerChar(c) ==
    IF \E i \in 1..Len(UpperCase) : UpperCase[i] = c
    THEN LowerCase[CHOOSE i \in 1..Len(UpperCase) : UpperCase[i] = c]
    ELSE c

\* str.lower()
Lower(s) == [i \in 1..Len(s) |-> LowerChar(s[i])]

\* str.endswith(suffix)
EndsWith(s, suffix) ==
    Len(suffix) <= Len(s) /\ SubSeq(s, Len(s) - Len(suffix) + 1, Len(s)) = suffix

\* the place of the last c in s, 0 when s holds none
LastIndexOf(s, c) ==
    IF \E i \in 1..Len(s) : s[i] = c
    THEN CHOOSE i \in 1..Len(s) : s[i] = c /\ \A j \in (i + 1)..Len(s) : s[j] # c
    ELSE 0

\* os.path.basename(path): what follows the last "/"
Basename(path) == SubSeq(path, LastIndexOf(path, "/") + 1, Len(path))

\* os.path.splitext(name) of a name without directory, split at its last dot d: the
\* extension is empty when there is no dot or only dots come before it
SplitAt(name, d) ==
    IF d > 0 /\ \E j \in 1..(d - 1) : name[j] # "."
    THEN [root |-> SubSeq(name, 1, d - 1), ext |-> SubSeq(name, d, Len(name))]
    ELSE [root |-> name, ext |-> <<>>]

\* os.path.splitext(os.path.basename(path))
SplitExt(path) == SplitAt(Basename(path), LastIndexOf(Basename(path), "."))

\* the alphabet of base64: A-Z, a-z, 0-9, + and /
B64Chars == UpperCase \o LowerCase \o Digits \o <<"+", "/">>

IsB64Char(c) == \E i \in 1..Len(B64Chars) : B64Chars[i] = c

\* the six bits a character of the alphabet stands for
B64Value(c) == (CHOOSE i \in 1..Len(B64Chars) : B64Chars[i] = c) - 1

\* the three bytes of four characters of the alphabet
QuadBytes(a, b, c, d) ==
    <<(a * 4 + b \div 16) % 256, (b * 16 + c \div 4) % 256, (c * 64 + d) % 256>>

\* the bytes of a text of the alphabet whose length is a multiple of four
RECURSIVE DataBytes(_)
DataBytes(data) ==
    IF data = <<>> THEN <<>>
    ELSE QuadBytes(B64Value(data[1]), B64Value(data[2]), B64Value(data[3]), B64Value(data[4]))
            \o DataBytes(SubSeq(data, 5, Len(data)))

\* the decoding of the characters of the alphabet found in a text: binascii.Error
\* (incorrect padding) unless they come in fours
BytesOfData(data) ==
    IF Len(data) % 4 # 0 THEN [raised |-> TRUE, bytes |-> <<>>]
    ELSE [raised |-> FALSE, bytes |-> DataBytes(data)]

\* base64.b64decode(text) for a text without "=": the characters outside the alphabet
\* are discarded before the decoding
B64Decode(text) == BytesOfData(SelectSeq(text, IsB64Char))

\* the characters of up to three bytes, padded with "="
TripleChars(bs) ==
    IF Len(bs) = 1
    THEN <<B64Chars[bs[1] \div 4 + 1], B64Chars[(bs[1] % 4) * 16 + 1], "=", "=">>
    ELSE IF Len(bs) = 2
    THEN <<B64Chars[bs[1] \div 4 + 1], B64Chars[(bs[1] % 4) * 16 + bs[2] \div 16 + 1],
           B64Chars[(bs[2] % 16) * 4 + 1], "=">>
    ELSE <<B64Chars[bs[1] \div 4 + 1], B64Chars[(bs[1] % 4) * 16 + bs[2] \div 16 + 1],
           B64Chars[(bs[2] % 16) * 4 + bs[3] \div 64 + 1], B64Chars[(bs[3] % 64) + 1]>>

\* base64.b64encode(bytes).decode('utf-8')
RECURSIVE B64Encode(_)
B64Encode(bs) ==
    IF bs = <<>> THEN <<>>
    ELSE IF Len(bs) <= 3 THEN TripleChars(bs)
    ELSE TripleChars(SubSeq(bs, 1, 3)) \o B64Encode(SubSeq(bs, 4, Len(bs)))

------------------------------------------------------------------------------
(* The uploads *)

\* a MusicXML document of the given divisions and note entries, without tempo
Score(divisions, entries) ==
    [divisions |-> Some(divisions), sound_tempo |-> Absent, metronome |-> Absent,
     entries |-> entries, complete |-> TRUE]

\* the files of the uploads that hold well-formed XML, by their bytes ("ABC", "ABD",
\* "ABE", "ABF"), and the document each holds
XmlFiles ==
    (<<65, 66, 67>> :> Score("1", <<WholeC4>>))
        @@ (<<65, 66, 68>> :> Score("1", <<>>))
        @@ (<<65, 66, 69>> :> Score("0", <<WholeC4>>))
        @@ (<<65, 66, 70>> :> Score("1", <<BadOctaveA>>))

\* ET.parse(file_path): the document of the file, or ParseError
ParseXml(bytes) ==
    IF bytes \in DOMAIN XmlFiles THEN [raised |-> FALSE, doc |-> Some(XmlFiles[bytes])]
    ELSE [raised |-> TRUE, doc |-> Absent]

\* the file_content texts of the requests: empty, the base64 of the four files, the
\* base64 of the first with characters outside the alphabet in it, three characters of
\* the alphabet, and no character of the alphabet at all
ContentTexts ==
    {<<>>,
     <<"Q", "U", "J", "D">>, <<"Q", "U", "J", "E">>, <<"Q", "U", "J", "F">>,
     <<"Q", "U", "J", "G">>,
     <<"Q", "U", " ", "J", "D", "!">>,
     <<"Q", "U", "J">>,
     <<"!", "!">>}

\* the filename texts of the requests
NameTexts ==
    {<<>>,
     <<"s", ".", "x", "m", "l">>,
     <<"S", "1", ".", "X", "M", "L">>,
     <<"a", ".", "b", ".", "m", "u", "s", "i", "c", "x", "m", "l">>,
     <<"p", ".", "p", "n", "g">>,
     <<"q", ".", "J", "P", "E", "G">>,
     <<"n", ".", "t", "x", "t">>}

\* the kinds of event: without a "body" key, with a body of None, of a list, of a text
\* that is not JSON, of the JSON text of a list, of the JSON text of an object, of a dict
FieldlessKinds == {"no_body_key", "none", "list", "text_malformed", "text_list"}
FieldKinds == {"text_object", "dict"}

Events ==
    {[kind |-> k, file_content |-> Absent, filename |-> Absent] : k \in FieldlessKinds}
        \cup [kind : FieldKinds,
              file_content : {Absent} \cup {Some(t) : t \in ContentTexts},
              filename : {Absent} \cup {Some(t) : t \in NameTexts}]

------------------------------------------------------------------------------
(* FileProcessor *)

\* a message: its fixed text and what is formatted into it
Msg(text, arg) == [text |-> text, arg |-> arg]
NoMsg == Msg("", "")

VisualizationSuffix ==
    <<"_", "v", "i", "s", "u", "a", "l", "i", "z", "a", "t", "i", "o", "n", ".", "m", "p", "4">>

\* lines 86-88
IsMusicXmlName(name) ==
    \/ EndsWith(Lower(name), <<".", "m", "u", "s", "i", "c", "x", "m", "l">>)
    \/ EndsWith(Lower(name), <<".", "x", "m", "l">>)

IsImageName(name) ==
    \/ EndsWith(Lower(name), <<".", "p", "n", "g">>)
    \/ EndsWith(Lower(name), <<".", "j", "p", "g">>)
    \/ EndsWith(Lower(name), <<".", "j", "p", "e", "g">>)

\* what the optical recognition can come to: disabled or not installed, no answer within
\* the timeout, a non-zero exit, an exit without a MusicXML file, a MusicXML file
OmrOutcomes == {"unavailable", "timeout", "failed", "no_file", "produced"}

\* the bytes of the file the optical recognition writes when it writes one
OmrFiles == {<<65, 66, 67>>, <<65, 66, 70>>, <<60>>}

\* what the encoder comes to in a write: "ok", or the text of the exception it raises
\* (an exception's text is stood for by a name)
EncoderOutcomes == {"ok", "ValueError", "OSError"}

\* the bytes write_videofile leaves in the output file: the container's header, then a
\* byte for each frame
VideoBytes(frames) ==
    <<102, 116, 121, 112>> \o [k \in 1..Len(frames) |-> IF frames[k] = ZerosFrame THEN 0 ELSE 1]

\* what a call of process_uploaded_file comes to: the tuple it returns, the calls it made
\* of the recognition, parse_musicxml and make_video, the files it wrote under its
\* directories, the document and timeline of the decode, and what make_video did
Ran(result, calls, files, d, t, v) ==
    [result |-> result, calls |-> calls, files |-> files, doc |-> d, timeline |-> t,
     video |-> v]

Failure(message) ==
    [success |-> FALSE, message |-> message, output |-> <<>>, filename |-> <<>>]

\* line 203
Success(output_video_basename, bytes) ==
    [success |-> TRUE, message |-> Msg("Video generated successfully", ""),
     output |-> bytes, filename |-> output_video_basename]

\* the text of the exception that left make_video: that of the encoder when it failed,
\* else that of the frame that raised
RaisedText(encoder) == IF encoder = "ok" THEN "Exception" ELSE encoder

\* lines 196-210: after make_video did v
AfterVideo(stem, calls, files, d, ns, v, encoder) ==
    IF v.raised
    THEN Ran(Failure(Msg("Error processing file", RaisedText(encoder))), calls, files, d,
             Some(ns), v)
    ELSE Ran(Success(stem \o VisualizationSuffix, VideoBytes(v.frames)), calls,
             files \cup {"video", "processing_stats.log"}, d, Some(ns), v)

\* lines 187-210: after parse_musicxml came to st on the document d
AfterParse(stem, calls, files, d, st, fps, e, encoder) ==
    IF st.error # "none"
    THEN Ran(Failure(Msg("Error processing file", st.error)), calls, files, Some(d), Absent,
             NoVideo)
    ELSE AfterVideo(stem, calls \o <<"make_video">>, files, Some(d), st.notes,
                    MakeVideo(st.notes, fps, Absent, e, encoder = "ok"), encoder)

\* lines 175-210: the MusicXML file, whose name without extension is stem and which
\* reads as xml, is copied, decoded and rendered
ProcessMusicXml(stem, xml, calls, files, fps, e, encoder) ==
    IF xml.raised
    THEN Ran(Failure(Msg("Error processing file", "ParseError")),
             calls \o <<"parse_musicxml">>, files \cup {"xml_record"}, Absent, Absent, NoVideo)
    ELSE AfterParse(stem, calls \o <<"parse_musicxml">>, files \cup {"xml_record"},
                    TheOf(xml.doc), Decode(TheOf(xml.doc)), fps, e, encoder)

\* faulty variant: a recognition that left no file goes on to the decode
RecognizeDecodingNothing(stem, omr, omr_file, files, fps, e, encoder) ==
    IF omr = "unavailable"
    THEN Ran(Failure(Msg("Image processing is not available in this environment. Please upload a MusicXML file.", "")),
             <<>>, files, Absent, Absent, NoVideo)
    ELSE IF omr = "timeout"
    THEN Ran(Failure(Msg("OMR processing timed out. The music sheet might be too complex or large.", "")),
             <<"oemer">>, files, Absent, Absent, NoVideo)
    ELSE IF omr = "failed"
    THEN Ran(Failure(Msg("Oemer failed", "stderr")), <<"oemer">>, files, Absent, Absent, NoVideo)
    ELSE ProcessMusicXml(stem, ParseXml(omr_file), <<"oemer">>, files \cup {"omr_output"},
                         fps, e, encoder)

\* lines 133-167: the image is handed to the recognition
Recognize(stem, omr, omr_file, files, fps, e, encoder) ==
    IF omr = "unavailable"
    THEN Ran(Failure(Msg("Image processing is not available in this environment. Please upload a MusicXML file.", "")),
             <<>>, files, Absent, Absent, NoVideo)
    ELSE IF omr = "timeout"
    THEN Ran(Failure(Msg("OMR processing timed out. The music sheet might be too complex or large.", "")),
             <<"oemer">>, files, Absent, Absent, NoVideo)
    ELSE IF omr = "failed"
    THEN Ran(Failure(Msg("Oemer failed", "stderr")), <<"oemer">>, files, Absent, Absent, NoVideo)
    ELSE IF omr = "no_file"
    THEN Ran(Failure(Msg("Oemer did not produce a MusicXML file", "basename")), <<"oemer">>,
             files, Absent, Absent, NoVideo)
    ELSE ProcessMusicXml(stem, ParseXml(omr_file), <<"oemer">>, files \cup {"omr_output"},
                         fps, e, encoder)

\* lines 110-172: the upload is saved, then recognized when it is an image
SaveAndProcess(name, bytes, omr, omr_file, save_ok, fps, e, encoder) ==
    IF ~save_ok
    THEN Ran(Failure(Msg("Failed to save uploaded file", "OSError")), <<>>, {"processing"},
             Absent, Absent, NoVideo)
    ELSE IF IsImageName(name)
    THEN Recognize(SplitExt(name).root, omr, omr_file, {"processing", "upload"}, fps, e,
                   encoder)
    ELSE ProcessMusicXml(SplitExt(name).root, ParseXml(bytes), <<>>, {"processing", "upload"},
                         fps, e, encoder)

\* process_uploaded_file(uploaded_file), lines 71-210
ProcessUploadedFile(name, bytes, omr, omr_file, save_ok, fps, e, encoder) ==
    IF ~(IsMusicXmlName(name) \/ IsImageName(name))
    THEN Ran(Failure(Msg("Please upload a MusicXML file (.musicxml, .xml) or an image file (.png, .jpg, .jpeg)", "")),
             <<>>, {}, Absent, Absent, NoVideo)
    ELSE SaveAndProcess(name, bytes, omr, omr_file, save_ok, fps, e, encoder)

------------------------------------------------------------------------------
(* lambda_handler.handler, step by step *)

\* the responses: the status code and the fields of the JSON body
Error400(text) ==
    [statusCode |-> 400, error |-> text, details |-> NoMsg, video_content |-> <<>>,
     filename |-> <<>>]

Error500(text, details) ==
    [statusCode |-> 500, error |-> text, details |-> details, video_content |-> <<>>,
     filename |-> <<>>]

Ok200(encoded_video, output_filename) ==
    [statusCode |-> 200, error |-> "", details |-> NoMsg, video_content |-> encoded_video,
     filename |-> output_filename]

\* lines 131-137: the exception is caught and answered
InternalError(exception) == Error500("Internal server error", Msg(exception, ""))

\* a Python value that is not a text: its type and, of a dict, the two keys read from it
Value(type, file_content, filename) ==
    [type |-> type, file_content |-> file_content, filename |-> filename]

\* json.loads(text) for the body texts of the events
JsonLoads(ev) ==
    IF ev.kind = "text_malformed" THEN [raised |-> TRUE, value |-> Value("NoneType", Absent, Absent)]
    ELSE IF ev.kind = "text_list" THEN [raised |-> FALSE, value |-> Value("list", Absent, Absent)]
    ELSE [raised |-> FALSE, value |-> Value("dict", ev.file_content, ev.filename)]

\* event.get("body", {}) for the events whose body is no text
GetBody(ev) ==
    IF ev.kind = "no_body_key" THEN Value("dict", Absent, Absent)
    ELSE IF ev.kind = "none" THEN Value("NoneType", Absent, Absent)
    ELSE IF ev.kind = "list" THEN Value("list", Absent, Absent)
    ELSE Value("dict", ev.file_content, ev.filename)

IsText(ev) == ev.kind \in {"text_malformed", "text_list", "text_object"}

\* lines 38-50: the body the handler goes on with
BodyOf(ev) == IF IsText(ev) THEN JsonLoads(ev).value ELSE GetBody(ev)

\* what the handler and the processor leave alone
pipelineLocals == <<resolve, idx, notes, current_time, props, env, frame, prev_frame, first>>

\* the return statement is reached with the response r; the finally clause is next
Return(r) ==
    /\ response' = Some(r)
    /\ pc' = "finally"

\* lines 24-36: the session directory is made
HandlerEnter ==
    /\ pc = "handler"
    /\ \E makedirs_ok \in BOOLEAN :
           IF makedirs_ok
           THEN /\ session' = [session EXCEPT !.created = TRUE, !.exists = TRUE]
                /\ pc' = "body"
                /\ UNCHANGED response
           ELSE /\ Return(InternalError("OSError"))
                /\ UNCHANGED session
    /\ UNCHANGED <<pipelineLocals, event, processor, doc, caller, timeline, error, video>>

\* lines 38-57: the body is read
ReadBody ==
    /\ pc = "body"
    /\ IF IsText(event) /\ JsonLoads(event).raised
       THEN Return(Error400("Malformed JSON in request body"))
       ELSE IF ~IsText(event) /\ BodyOf(event).type # "dict"
       THEN Return(Error400("Request body must be a valid JSON object or JSON string."))
       ELSE /\ pc' = "fields"
            /\ UNCHANGED response
    /\ UNCHANGED <<pipelineLocals, event, session, processor, doc, caller, timeline, error,
                   video>>

\* str is falsy when None or empty
Falsy(o) == o = Absent \/ TheOf(o) = <<>>

\* lines 60-69: file_content and filename are read from the body
CheckFields ==
    /\ pc = "fields"
    /\ IF BodyOf(event).type # "dict"
       THEN Return(InternalError("AttributeError"))
       ELSE IF Falsy(BodyOf(event).file_content) \/ Falsy(BodyOf(event).filename)
       THEN Return(Error400("Missing file_content or filename"))
       ELSE /\ pc' = "content"
            /\ UNCHANGED response
    /\ UNCHANGED <<pipelineLocals, event, session, processor, doc, caller, timeline, error,
                   video>>

\* lines 72-80: file_content is decoded
DecodeContent ==
    /\ pc = "content"
    /\ IF B64Decode(TheOf(BodyOf(event).file_content)).raised
       THEN Return(Error400("Invalid base64 encoded file_content"))
       ELSE /\ pc' = "process"
            /\ UNCHANGED response
    /\ UNCHANGED <<pipelineLocals, event, session, processor, doc, caller, timeline, error,
                   video>>

\* the state after the processor was constructed and process_uploaded_file came to ran
Processed(ran, omr, encoder) ==
    /\ processor' = [constructed |-> TRUE, omr |-> omr, encoder |-> encoder,
                     calls |-> ran.calls, result |-> Some(ran.result)]
    /\ session' = [session EXCEPT !.files = {"temp_files", "xml_out_files"} \cup ran.files]
    /\ doc' = IF ran.doc = Absent THEN doc ELSE TheOf(ran.doc)
    /\ timeline' = ran.timeline
    /\ video' = ran.video
    /\ UNCHANGED error
    /\ caller' = "process_uploaded_file"
    /\ pc' = "respond"

\* lines 90-99: FileProcessor(base_temp_dir), then process_uploaded_file(uploaded_file_obj)
ProcessFile ==
    /\ pc = "process"
    /\ \E omr \in OmrOutcomes, omr_file \in OmrFiles, save_ok \in BOOLEAN, fps \in FpsArgs,
          encoder \in EncoderOutcomes :
           Processed(ProcessUploadedFile(TheOf(BodyOf(event).filename),
                                         B64Decode(TheOf(BodyOf(event).file_content)).bytes,
                                         omr, omr_file, save_ok, fps, env, encoder),
                     omr, encoder)
    /\ UNCHANGED <<pipelineLocals, event, response>>

\* faulty variant: the file is answered before the processor's outcome is looked at
AnswerOfAlwaysOk(result) == Ok200(B64Encode(result.output), result.filename)

\* lines 101-129: the response for the tuple process_uploaded_file returned
AnswerOf(result) ==
    IF ~result.success THEN Error500("File processing failed", result.message)
    ELSE Ok200(B64Encode(result.output), result.filename)

\* lines 101-129
Respond ==
    /\ pc = "respond"
    /\ Return(AnswerOf(TheOf(processor.result)))
    /\ UNCHANGED <<pipelineLocals, event, session, processor, doc, caller, timeline, error,
                   video>>

\* faulty variant: os.rmdir in the place of shutil.rmtree, which removes an empty
\* directory only
CleanedWhenEmpty(s, rmtree_ok) ==
    IF ~s.exists \/ s.files # {} THEN s
    ELSE IF rmtree_ok THEN [s EXCEPT !.exists = FALSE, !.cleanup = "removed"]
    ELSE [s EXCEPT !.cleanup = "failed"]

\* lines 138-145: the session directory after the finally clause, in which shutil.rmtree
\* removes it with all that is under it, or raises an exception that is logged
Cleaned(s, rmtree_ok) ==
    IF ~s.exists THEN s
    ELSE IF rmtree_ok THEN [s EXCEPT !.exists = FALSE, !.files = {}, !.cleanup = "removed"]
    ELSE [s EXCEPT !.cleanup = "failed"]

\* lines 138-145: the finally clause, then the handler returns
Finally ==
    /\ pc = "finally"
    /\ \E rmtree_ok \in BOOLEAN : session' = Cleaned(session, rmtree_ok)
    /\ pc' = "returned"
    /\ UNCHANGED <<pipelineLocals, event, processor, response, doc, caller, timeline, error,
                   video>>

HandlerInit ==
    /\ event \in Events
    /\ session = NoSession
    /\ processor = NoProcessor
    /\ response = Absent
    /\ doc = Score("1", <<>>)
    /\ pc = "handler"
    /\ caller = "lambda_handler"
    /\ idx = 0
    /\ notes = <<>>
    /\ current_time = 0
    /\ props = NoProps
    /\ timeline = Absent
    /\ error = "none"
    /\ video = NoVideo
    /\ env = LambdaEnv
    /\ frame = NoCall
    /\ prev_frame = NoCall
    /\ first = Absent
    /\ resolve = NoLookup

HandlerNext ==
    \/ HandlerEnter
    \/ ReadBody
    \/ CheckFields
    \/ DecodeContent
    \/ ProcessFile
    \/ Respond
    \/ Finally

HandlerSpec == HandlerInit /\ [][HandlerNext]_vars

------------------------------------------------------------------------------
(* Helpers of the properties *)

RECURSIVE SumDurations(_)
SumDurations(ns) == IF ns = <<>> THEN 0 ELSE ns[1].duration + SumDurations(Tail(ns))

\* a rest whose duration is a number
IsTimedRest(e) == ~e.grace /\ e.rest /\ ~MissingText(e.duration) /\ IsFloatText(TheOf(e.duration))

\* the total duration of the timed rests among entries[1..n]
RECURSIVE RestDurations(_, _, _)
RestDurations(entries, n, spd) ==
    IF n = 0 THEN 0
    ELSE RestDurations(entries, n - 1, spd)
         + (IF IsTimedRest(entries[n]) THEN FloatOf(TheOf(entries[n].duration)) * spd ELSE 0)

\* the place in the document of the last entry decoded into an event, 0 when there is none
LastEmitted(entries) ==
    LET emitted == {i \in 1..Len(entries) : EntryOutcome(entries[i]) = "emit"}
    IN IF emitted = {} THEN 0 ELSE CHOOSE i \in emitted : \A j \in emitted : j <= i

LastOf(ns) == ns[Len(ns)]

\* a pitched note whose duration is missing or not a number
HasFaultyDuration(e) ==
    /\ ~e.grace /\ ~e.rest /\ e.pitch
    /\ ~MissingChars(e.step) /\ ~MissingChars(e.octave)
    /\ (MissingText(e.duration) \/ ~IsFloatText(TheOf(e.duration)))

WithoutFaulty(entries) == SelectSeq(entries, LAMBDA e : ~HasFaultyDuration(e))

\* the divisions value is absent, empty, not a number or zero
BadDivisions(d) ==
    \/ d.divisions = Absent
    \/ TheOf(d.divisions) = ""
    \/ TheOf(d.divisions) \notin DOMAIN FloatTable
    \/ FloatTable[TheOf(d.divisions)] = 0

\* the tempo of a document as the specification words it: the tempo attribute, else the
\* metronome marking whatever its shape, else 120
StatedTempo(d) ==
    IF ~MissingText(d.sound_tempo) THEN FloatOf(TheOf(d.sound_tempo))
    ELSE IF d.metronome # Absent /\ ~MissingText(TheOf(d.metronome).per_minute)
    THEN FloatOf(TheOf(TheOf(d.metronome).per_minute))
    ELSE DefaultTempoBpm

\* the document of the end-to-end example: one whole note of 4 ticks, divisions 1, no tempo
ExampleDoc(d) ==
    /\ d.divisions = Some("1")
    /\ d.sound_tempo = Absent
    /\ d.metronome = Absent
    /\ d.entries = <<WholeC4>>

------------------------------------------------------------------------------
(* The properties *)

\* C1: in a call of create_fingerboard_frame, a note of the timeline is in the active
\* list exactly when start_time <= t < start_time + duration, and the title names as many
\* notes as satisfy it; so a note is not active at its end instant, and a note of
\* positive duration is active at its start.
C1_ClosedOpenInterval ==
    frame.called =>
        /\ \A i \in 1..Len(notes) :
              /\ InList(notes[i], frame.active) <=>
                    (notes[i].start_time <= frame.t
                     /\ frame.t < notes[i].start_time + notes[i].duration)
              /\ (frame.t = notes[i].start_time + notes[i].duration /\ notes[i].duration > 0)
                    => ~InList(notes[i], frame.active)
              /\ (frame.t = notes[i].start_time /\ notes[i].duration > 0)
                    => InList(notes[i], frame.active)
        /\ frame.out.title # Absent
        /\ Len(TheOf(frame.out.title).playing) =
              Cardinality({i \in 1..Len(notes) :
                              notes[i].start_time <= frame.t
                              /\ frame.t < notes[i].start_time + notes[i].duration})

\* a frame at the instant one note ends, left out of the active list, and the next
\* starts, held in it
C1_Witness ==
    /\ frame.called
    /\ \E i, j \in 1..Len(notes) :
          /\ notes[i].duration > 0
          /\ frame.t = notes[i].start_time + notes[i].duration
          /\ ~InList(notes[i], frame.active)
          /\ notes[j].duration > 0
          /\ frame.t = notes[j].start_time
          /\ InList(notes[j], frame.active)

\* C2 as stated: once a timeline with a note is returned, the durations of the notes plus
\* the durations of all the rests of the document add up to the end of the last event.
C2_AllRestsCounted ==
    (pc = "parsed" /\ notes # <<>>) =>
        SumDurations(notes)
        + RestDurations(doc.entries, Len(doc.entries), props.seconds_per_division)
        = LastOf(notes).start_time + LastOf(notes).duration

\* C2 amended: the durations of the notes plus the durations of the rests that come
\* before the last decoded note add up to the end of the last event.
C2_RestsBeforeLastNote ==
    (pc = "parsed" /\ notes # <<>>) =>
        SumDurations(notes)
        + RestDurations(doc.entries, LastEmitted(doc.entries), props.seconds_per_division)
        = LastOf(notes).start_time + LastOf(notes).duration

\* a rest, a note, and a rest after the last note
C2_Witness ==
    /\ pc = "parsed"
    /\ notes # <<>>
    /\ \E i, j \in 1..Len(doc.entries) :
          /\ i < LastEmitted(doc.entries) /\ IsTimedRest(doc.entries[i])
          /\ j > LastEmitted(doc.entries) /\ IsTimedRest(doc.entries[j])

\* C3: a document whose divisions are absent, empty, not a number or zero makes the decode
\* fail with a ValueError; no timeline is returned, no entry is walked, no event is made.
C3_BadDivisionsFatal ==
    (BadDivisions(doc) /\ pc # "start") =>
        /\ pc = "failed"
        /\ error = "ValueError"
        /\ timeline = Absent
        /\ notes = <<>>
        /\ doc.entries = <<>>
        /\ ~video.called

\* the decode of a document with divisions 0 has failed
C3_Witness == pc = "failed" /\ doc.divisions = Some("0") /\ error = "ValueError"

\* C4 as stated: the tempo of a decode is the tempo attribute when there is one, else
\* the metronome marking when there is one, whatever its shape, else 120.
C4_TempoAsStated ==
    pc \in {"measures", "parsed", "done"} => props.tempo_bpm = StatedTempo(doc)

\* C5 as stated: a returned timeline was computed with divisions > 0 and tempo > 0.
C5_PositiveProperties ==
    timeline # Absent => (props.divisions > 0 /\ props.tempo_bpm > 0)

\* C6: at every point of the walk the list and the clock are what the walk of the same
\* entries without the pitched notes of missing or non-numeric duration gives: such a
\* note makes no event, leaves the clock, and changes nothing for the entries after it.
C6_FaultyNoteAsIfAbsent ==
    (pc \in {"measures", "parsed", "done"} \/ (pc = "failed" /\ idx > 0 /\ ~video.called)) =>
        [notes |-> notes, current_time |-> current_time,
         error |-> IF pc = "failed" THEN error ELSE "none"]
        = WalkEntries([notes |-> <<>>, current_time |-> 0, error |-> "none"],
                      WithoutFaulty(SubSeq(doc.entries, 1, idx)), 1,
                      props.seconds_per_division)

\* a returned timeline with an event decoded from an entry that follows a faulty note
C6_Witness ==
    /\ pc = "parsed"
    /\ \E i, j \in 1..Len(doc.entries) :
          /\ i < j
          /\ HasFaultyDuration(doc.entries[i])
          /\ EntryOutcome(doc.entries[j]) = "emit"
    /\ Len(notes) >= 1

\* C7: for a timeline with an event, the clip make_video writes lasts the explicit
\* duration when one is given, else the end of the last event of the list plus one
\* second, and its frames are sampled over [0, duration); the example document gives one
\* event of start 0 and duration 2 s, and a 3 s clip.
C7_VideoDuration ==
    (video.called /\ timeline # Absent /\ TheOf(timeline) # <<>>) =>
        /\ video.duration =
              IF video.explicit_duration # Absent THEN TheOf(video.explicit_duration)
              ELSE LastOf(TheOf(timeline)).start_time + LastOf(TheOf(timeline)).duration
                   + SecondMs
        /\ \A k \in 1..Len(video.frames) : (k - 1) * (SecondMs \div video.fps) < video.duration
        /\ video.duration > 0 => Len(video.frames) * (SecondMs \div video.fps) >= video.duration
        /\ (ExampleDoc(doc) /\ video.explicit_duration = Absent) =>
              /\ Len(TheOf(timeline)) = 1
              /\ TheOf(timeline)[1].start_time = 0
              /\ TheOf(timeline)[1].duration = 2 * SecondMs
              /\ video.duration = 3 * SecondMs

\* the example document, decoded and assembled with no explicit duration
C7_Witness ==
    /\ pc = "done"
    /\ ExampleDoc(doc)
    /\ video.called /\ video.returned
    /\ video.explicit_duration = Absent
    /\ video.duration = 3 * SecondMs

\* C8 as stated: a run that ends without a failure on a document with no qualifying note
\* has made a 1-second video whose frames show the scaffold and no marker.
C8_BlankScaffoldVideo ==
    (pc = "done" /\ timeline = Some(<<>>)) =>
        /\ video.called /\ video.returned
        /\ video.duration = SecondMs
        /\ Len(video.frames) >= 1
        /\ \A k \in 1..Len(video.frames) :
              /\ video.frames[k].scaffold
              /\ video.frames[k].markers = <<>>
              /\ video.frames[k].labels = {}

\* C8 amended: on an empty timeline make_video builds the 1-second clip of all-black
\* frames (no scaffold, no title), whatever duration is given, and returns it unless the
\* write fails; main ends without an error and without calling make_video.
C8_BlackVideoOrNone ==
    /\ (video.called /\ timeline = Some(<<>>)) =>
          /\ video.make_frame = "zeros"
          /\ video.duration = SecondMs
          /\ Len(video.frames) >= 1
          /\ \A k \in 1..Len(video.frames) : video.frames[k] = ZerosFrame
          /\ video.writes = 1
    /\ (pc = "done" /\ timeline = Some(<<>>)) =>
          IF caller = "main" THEN ~video.called /\ error = "none"
          ELSE video.called /\ video.returned

\* process_uploaded_file has assembled the video of a document with no qualifying note
C8_Witness ==
    /\ pc = "done"
    /\ timeline = Some(<<>>)
    /\ caller = "process_uploaded_file"
    /\ video.returned
    /\ Len(video.frames) >= 1

\* C9 as stated: two calls of create_fingerboard_frame on the same timeline and query
\* time return the same frame, whatever happened between them.
C9_SameArgumentsSameFrame ==
    (frame.called /\ prev_frame.called /\ frame.t = prev_frame.t) =>
        frame.out = prev_frame.out

\* C9 amended: two calls on the same timeline and query time return the same frame when
\* the font the renderer loads is the same at both calls, whatever was rendered between.
C9_SameArgumentsAndFontSameFrame ==
    (frame.called /\ prev_frame.called /\ frame.t = prev_frame.t
     /\ frame.font = prev_frame.font) =>
        frame.out = prev_frame.out

\* two calls at one query time with one font, with an active note labelled in the frame
C9_Witness ==
    /\ frame.called /\ prev_frame.called
    /\ frame.t = prev_frame.t
    /\ frame.font = prev_frame.font
    /\ frame.out.labels # {}
    /\ env # LambdaEnv

\* C10: the second decode of a document ends as the first did: the same exception, or
\* the same timeline, event for event.
C10_DecodeTwiceSame ==
    (first # Absent /\ pc \in {"parsed", "failed"}) =>
        TheOf(first) = [error |-> error, timeline |-> timeline]

\* a document decoded twice into a timeline of two events
C10_Witness ==
    /\ first # Absent
    /\ pc = "parsed"
    /\ Len(TheOf(timeline)) >= 2

\* the name a note goes by in the title: its annotation, else its raw note name
DisplayName(n) == IF n.text # Absent /\ TheOf(n.text) # <<>> THEN TheOf(n.text) ELSE n.note

\* a note whose name has no position, the rewritten name having none either
Unresolvable(n) == ResolvePosition(n.note) = [raised |-> FALSE, pos |-> Absent]

IsActiveAt(n, t) == n.start_time <= t /\ t < n.start_time + n.duration

\* C11: a frame shows the markers and labels of the notes that have a position and of no
\* other note, the notes without a position leaving nothing on the fingerboard; and the
\* title lists every note without a position that is active, by its annotation, else by
\* its raw note name.
C11_UnresolvedNoMarkerButTitled ==
    (frame.called /\ ~frame.out.raised) =>
        /\ frame.out.markers =
              DrawNotes(BlankCanvas, SelectSeq(notes, LAMBDA n : ~Unresolvable(n)),
                        frame.active, 1, frame.font).markers
        /\ frame.out.labels =
              DrawNotes(BlankCanvas, SelectSeq(notes, LAMBDA n : ~Unresolvable(n)),
                        frame.active, 1, frame.font).labels
        /\ ((\A i \in 1..Len(notes) : Unresolvable(notes[i])) =>
               frame.out.markers = <<>> /\ frame.out.labels = {})
        /\ \A i \in 1..Len(notes) :
              (Unresolvable(notes[i]) /\ IsActiveAt(notes[i], frame.t)) =>
                  /\ frame.out.title # Absent
                  /\ \E j \in 1..Len(TheOf(frame.out.title).playing) :
                        TheOf(frame.out.title).playing[j] = DisplayName(notes[i])

\* a frame in which a note without a position and without an annotation is active and is
\* named in the title, beside the marker of a note that has a position
C11_Witness ==
    /\ frame.called
    /\ frame.out.markers # <<>>
    /\ frame.out.labels = {}
    /\ \E i \in 1..Len(notes) :
          /\ Unresolvable(notes[i])
          /\ notes[i].text = Absent
          /\ IsActiveAt(notes[i], frame.t)
          /\ TheOf(frame.out.title).playing = <<notes[i].note>>

\* the lookup name the rewrite is stated to give: Cb n as B n-1, B# n as C n+1, Fb n as
\* E n, E# n as F n, for a name made of a step, one accidental and an octave digit
StatedRewrite(label) ==
    IF SubSeq(label, 1, 2) = <<"C", "b">>
    THEN <<"B">> \o IntToChars(DigitValue(label[3]) - 1)
    ELSE IF SubSeq(label, 1, 2) = <<"B", "#">>
    THEN <<"C">> \o IntToChars(DigitValue(label[3]) + 1)
    ELSE IF SubSeq(label, 1, 2) = <<"F", "b">> THEN <<"E", label[3]>>
    ELSE IF SubSeq(label, 1, 2) = <<"E", "#">> THEN <<"F", label[3]>>
    ELSE label

\* C12 as stated: a name of a step, one accidental and an octave that is not in the
\* table resolves to the position of its rewritten name, E#4 to that of F4 and B#3 to
\* that of C4.
C12_RewriteAsStated ==
    (resolve.called /\ Len(resolve.label) = 3 /\ PositionsGet(resolve.label) = Absent) =>
        /\ ~resolve.out.raised
        /\ resolve.out.pos = PositionsGet(StatedRewrite(resolve.label))

\* C13 as stated: once divisions and tempo are read, the decode does not fail: a failure
\* of parse_musicxml is a failure of the reading of the properties, before any entry.
C13_EntriesNeverFatal ==
    (pc = "failed" /\ ~video.called) => (idx = 0 /\ doc.entries = <<>>)

\* the places, among entries[1..n], of the entries decoded into events, in order
EmitPlaces(entries, n) ==
    SelectSeq([i \in 1..n |-> i], LAMBDA i : EntryOutcome(entries[i]) = "emit")

\* what an entry adds to the clock: the duration of a timed rest or of an emitted note
ClockShare(e, spd) ==
    IF EntryOutcome(e) \in {"advance", "emit"} THEN FloatOf(TheOf(e.duration)) * spd ELSE 0

\* the voice of an entry: its voice element, else the default voice
VoiceOfEntry(e) == IF MissingText(e.voice) THEN DefaultVoice ELSE IntOf(TheOf(e.voice))

\* the sum of the shares of the entries before place i whose voice is one of voices
RECURSIVE SharesBefore(_, _, _, _)
SharesBefore(entries, i, spd, voices) ==
    IF i <= 1 THEN 0
    ELSE SharesBefore(entries, i - 1, spd, voices)
         + (IF VoiceOfEntry(entries[i - 1]) \in voices
            THEN ClockShare(entries[i - 1], spd) ELSE 0)

\* the voices of the entries of a document
VoicesOf(entries) == {VoiceOfEntry(entries[i]) : i \in 1..Len(entries)}

\* the event at place k of the list comes from the entry at place i of the document: its
\* start is the sum of the shares of all the entries before, its duration the ticks
\* times 60 / tempo_bpm / divisions
OnOneClock(ev, entries, i) ==
    /\ ev.start_time = SharesBefore(entries, i, props.seconds_per_division, VoicesOf(entries))
    /\ ev.duration =
          ((FloatOf(TheOf(entries[i].duration)) * MsPerMinute) \div props.tempo_bpm)
              \div props.divisions
    /\ ev.note = NoteName(entries[i])

\* C14: at every point of the decode there are as many events as entries decoded into
\* one, and each event starts at the sum of the durations of the timed rests and of
\* the emitted notes before its entry, of whatever voice, and lasts its ticks times
\* 60 / tempo_bpm / divisions; grace notes and skipped notes add nothing.
C14_SingleRunningClock ==
    pc # "start" =>
        /\ Len(notes) = Len(EmitPlaces(doc.entries, idx))
        /\ \A k \in 1..Len(notes) :
              OnOneClock(notes[k], doc.entries, EmitPlaces(doc.entries, idx)[k])
        /\ (pc \in {"measures", "parsed"}) =>
              current_time = SharesBefore(doc.entries, idx + 1, props.seconds_per_division,
                                          VoicesOf(doc.entries))

\* a timeline of two events of two voices with a rest between them, at a tempo that is
\* not the default
C14_Witness ==
    /\ pc = "parsed"
    /\ props.tempo_bpm # DefaultTempoBpm
    /\ Len(notes) = 2
    /\ notes[1].voice # notes[2].voice
    /\ notes[2].start_time > notes[1].start_time + notes[1].duration

\* the sum of the shares of the entries before place i that are of voice v
SameVoiceBefore(entries, i, spd, v) == SharesBefore(entries, i, spd, {v})

\* the sum of the shares of the entries before place i that are of another voice than v
OtherVoicesBefore(entries, i, spd, v) == SharesBefore(entries, i, spd, VoicesOf(entries) \ {v})

\* C15 as stated: in a returned timeline each event starts at the sum of the durations of
\* the prior notes and rests of its own voice.
C15_PerVoiceClock ==
    pc = "parsed" =>
        \A k \in 1..Len(notes) :
            notes[k].start_time =
                SameVoiceBefore(doc.entries, EmitPlaces(doc.entries, idx)[k],
                                props.seconds_per_division, notes[k].voice)

\* C15 amended: in a returned timeline each event starts at the sum of the durations of
\* the prior notes and rests of its own voice plus those of the prior notes and rests of
\* every other voice; it starts at the sum of its own voice when no prior note or rest
\* of another voice has a duration.
C15_AllVoicesOneClock ==
    pc = "parsed" =>
        \A k \in 1..Len(notes) :
            /\ notes[k].voice = VoiceOfEntry(doc.entries[EmitPlaces(doc.entries, idx)[k]])
            /\ notes[k].start_time =
                  SameVoiceBefore(doc.entries, EmitPlaces(doc.entries, idx)[k],
                                  props.seconds_per_division, notes[k].voice)
                  + OtherVoicesBefore(doc.entries, EmitPlaces(doc.entries, idx)[k],
                                      props.seconds_per_division, notes[k].voice)

\* a returned timeline of interleaved voices: an event of voice 2 after an event of
\* voice 1, and an event of voice 1 after it
C15_Witness ==
    /\ pc = "parsed"
    /\ Len(notes) = 3
    /\ notes[1].voice = 1 /\ notes[2].voice = 2 /\ notes[3].voice = 1
    /\ notes[2].start_time = notes[1].duration
    /\ notes[3].start_time = notes[1].duration + notes[2].duration

\* a text of base64 as the standard has it: characters of the alphabet only, in fours
\* (the texts of the requests hold no padding)
ValidBase64(text) == (\A i \in 1..Len(text) : IsB64Char(text[i])) /\ Len(text) % 4 = 0

\* the body of the event holds fields to read: a text of a JSON object, or a dict
HasFields(ev) == ev.kind \in FieldKinds

\* the requests the handler is to refuse, and the message stated for each
StatedRefusal(ev) ==
    IF ev.kind = "text_malformed" THEN Some("Malformed JSON in request body")
    ELSE IF HasFields(ev) /\ (Falsy(ev.file_content) \/ Falsy(ev.filename))
    THEN Some("Missing file_content or filename")
    ELSE IF HasFields(ev) /\ ~ValidBase64(TheOf(ev.file_content))
    THEN Some("Invalid base64 encoded file_content")
    ELSE Absent

\* C16: once the handler has returned from a request whose body is a text that is not
\* JSON, or lacks file_content or filename or has them empty, or whose file_content is
\* not valid base64, the response is the 400 of the matching message, no FileProcessor
\* was constructed and neither parse_musicxml nor make_video ran.
C16_InvalidRequestsRefused ==
    (pc = "returned" /\ session.created /\ StatedRefusal(event) # Absent)
        => /\ response = Some(Error400(TheOf(StatedRefusal(event))))
           /\ ~processor.constructed
           /\ processor.calls = <<>>
           /\ ~video.called

\* C17: once the handler has returned from an event whose body is neither a text nor an
\* object, the event without a body key among them, the response is the 400 of
\* 'Request body must be a valid JSON object or JSON string.'.
C17_NonJsonBodyRefused ==
    (pc = "returned" /\ session.created /\ event.kind \in {"no_body_key", "none", "list"})
        => response = Some(Error400("Request body must be a valid JSON object or JSON string."))

\* C18 as stated: once the handler has returned, on whatever path, the session directory
\* it created and all that was written under it are gone.
C18_SessionAlwaysRemoved ==
    (pc = "returned" /\ session.created) => (~session.exists /\ session.files = {})

\* C18 amended: once the handler has returned a response, on whatever path, the session
\* directory it created and all that was written under it are gone, unless shutil.rmtree
\* raised, in which case the directory is left as it was; the response is returned in
\* both cases.
C18_SessionRemovedUnlessRmtreeRaised ==
    (pc = "returned" /\ session.created)
        => /\ response # Absent
           /\ session.cleanup \in {"removed", "failed"}
           /\ (session.cleanup = "removed") => (~session.exists /\ session.files = {})
           /\ (session.cleanup = "failed") => session.exists

\* the handler has returned a processing failure after the processor wrote its
\* directories and the upload, and the session directory is gone
C18_Witness ==
    /\ pc = "returned"
    /\ session.created
    /\ processor.constructed
    /\ "parse_musicxml" \in {processor.calls[i] : i \in 1..Len(processor.calls)}
    /\ TheOf(response).statusCode = 500
    /\ session.cleanup = "removed"
    /\ ~session.exists
    /\ session.files = {}

\* the names of a sequence of calls
CallsOf(p) == {p.calls[i] : i \in 1..Len(p.calls)}

\* the upload of the request is an image for which the optical recognition gave no
\* MusicXML file
OmrGaveNothing ==
    /\ processor.constructed
    /\ IsImageName(TheOf(BodyOf(event).filename))
    /\ processor.omr \in {"unavailable", "timeout", "failed", "no_file"}

\* C19: when the upload is an image and the optical recognition is unavailable, times
\* out, exits with a non-zero code or leaves no MusicXML file, process_uploaded_file
\* returns a failure, neither parse_musicxml nor make_video was called, and the response
\* of the handler is the 500 of 'File processing failed' with the message of the
\* processor as details.
C19_OmrFailureNeverDecodes ==
    OmrGaveNothing
        => /\ ~TheOf(processor.result).success
           /\ CallsOf(processor) \cap {"parse_musicxml", "make_video"} = {}
           /\ timeline = Absent
           /\ ~video.called
           /\ (response # Absent)
                 => response = Some(Error500("File processing failed",
                                             TheOf(processor.result).message))

\* the handler has returned the 500 of an image whose recognition was started and left
\* no MusicXML file
C19_Witness ==
    /\ pc = "returned"
    /\ OmrGaveNothing
    /\ processor.omr = "no_file"
    /\ processor.calls = <<"oemer">>
    /\ TheOf(response).statusCode = 500
    /\ TheOf(response).details = Msg("Oemer did not produce a MusicXML file", "basename")

\* the request uploads a valid MusicXML file: a name of MusicXML, valid base64 of a
\* well-formed document that parse_musicxml decodes
ValidUpload(ev) ==
    /\ HasFields(ev)
    /\ ~Falsy(ev.file_content) /\ ~Falsy(ev.filename)
    /\ IsMusicXmlName(TheOf(ev.filename))
    /\ ValidBase64(TheOf(ev.file_content))
    /\ ~ParseXml(B64Decode(TheOf(ev.file_content)).bytes).raised
    /\ Decode(TheOf(ParseXml(B64Decode(TheOf(ev.file_content)).bytes).doc)).error = "none"

\* the directories were made, the upload was saved and the video was written
NothingFailed ==
    /\ session.created
    /\ processor.constructed
    /\ TheOf(processor.result).message.text # "Failed to save uploaded file"
    /\ video.called /\ ~video.raised

\* C20: once the handler has returned from a valid MusicXML upload, the body a JSON text
\* or an object, and neither the file system nor the encoder failed, the response is a
\* 200 whose video_content is the non-empty base64 of the written video and whose
\* filename is the base name of the upload followed by '_visualization.mp4'; and a 200
\* is returned only after parse_musicxml and then make_video were called and both
\* returned.
C20_ValidUploadAnswered ==
    /\ (pc = "returned" /\ ValidUpload(event) /\ NothingFailed)
          => /\ TheOf(response).statusCode = 200
             /\ TheOf(response).video_content # <<>>
             /\ TheOf(response).video_content = B64Encode(VideoBytes(video.frames))
             /\ TheOf(response).filename =
                   SplitExt(TheOf(event.filename)).root \o VisualizationSuffix
    /\ (response # Absent /\ TheOf(response).statusCode = 200)
          => /\ processor.constructed
             /\ Len(processor.calls) >= 2
             /\ SubSeq(processor.calls, Len(processor.calls) - 1, Len(processor.calls))
                   = <<"parse_musicxml", "make_video">>
             /\ timeline # Absent
             /\ video.returned

\* the handler has returned the 200 of the score uploaded as "S1.XML" in a JSON text:
\* the video of the one note, named "S1_visualization.mp4"
C20_Witness ==
    /\ pc = "returned"
    /\ event.kind = "text_object"
    /\ ValidUpload(event)
    /\ event.filename = Some(<<"S", "1", ".", "X", "M", "L">>)
    /\ TheOf(response).statusCode = 200
    /\ TheOf(response).filename = <<"S", "1">> \o VisualizationSuffix
    /\ TheOf(timeline) # <<>>
    /\ Len(TheOf(response).video_content) > 0

\* the messages process_uploaded_file returns when parse_musicxml fails on a file of the
\* uploads (well-formed or not)
DecodeFailureMessages ==
    {ProcessMusicXml(<<>>, ParseXml(b), <<>>, {}, FrameRate, LambdaEnv, "ok").result.message :
        b \in {f \in (DOMAIN XmlFiles) \cup OmrFiles :
                  ~ProcessMusicXml(<<>>, ParseXml(f), <<>>, {}, FrameRate, LambdaEnv, "ok").video.called}}

\* C21: the message process_uploaded_file returns tells the failing stage: the message of
\* a failure of make_video is not the message of any failure of parse_musicxml, even when
\* the two have the same cause text, and the handler passes the message on as details.
C21_MessageTellsStage ==
    (processor.constructed /\ video.called /\ video.raised)
        => /\ TheOf(processor.result).message \notin DecodeFailureMessages
           /\ (response # Absent) => TheOf(response).details = TheOf(processor.result).message

\* C22: when the encoder fails in the write of make_video, the exception leaves
\* make_video, which made one write and returns no output file; its caller
\* process_uploaded_file gets it with the text of the encoder's exception, and no video
\* file is reported.
C22_EncoderFailurePropagates ==
    (processor.constructed /\ video.called /\ processor.encoder # "ok")
        => /\ video.raised
           /\ video.writes = 1
           /\ ~video.returned
           /\ TheOf(processor.result) =
                 Failure(Msg("Error processing file", processor.encoder))

\* the handler has returned after the encoder failed with OSError in the write of the
\* video of the one-note score
C22_Witness ==
    /\ pc = "returned"
    /\ processor.encoder = "OSError"
    /\ video.called /\ video.raised /\ video.writes = 1
    /\ video.make_frame # "zeros"
    /\ TheOf(response).details = Msg("Error processing file", "OSError")

\* no note of the timeline is active at the time of the latest frame
Silent == \A i \in 1..Len(notes) : ~IsActiveAt(notes[i], frame.t)

\* the coordinates of the notes of the timeline that have a position
ResolvedCoords ==
    {TheOf(ResolvePosition(notes[i].note).pos) :
        i \in {j \in 1..Len(notes) : ResolvePosition(notes[j].note).pos # Absent}}

\* C23 as stated: a frame at a time at which no note is active is the scaffold alone,
\* without any note marker, its title is the elapsed time only, and the call does not
\* raise.
C23_SilentFrameScaffoldOnly ==
    (frame.called /\ Silent)
        => /\ ~frame.out.raised
           /\ frame.out.scaffold
           /\ frame.out.markers = <<>>
           /\ frame.out.labels = {}
           /\ frame.out.title = Some([time |-> FormatTime(frame.t), playing |-> <<>>])

\* C23 amended: a frame at a time at which no note is active is the scaffold with the
\* marker, in the colour of the notes that are not playing, of every note of the timeline
\* that has a position, without any highlighted marker and without any label; its title
\* is the elapsed time only, and the call does not raise.
C23_SilentFrameNoHighlight ==
    (frame.called /\ Silent)
        => /\ ~frame.out.raised
           /\ frame.out.scaffold
           /\ DOMAIN frame.out.markers = ResolvedCoords
           /\ \A c \in DOMAIN frame.out.markers : frame.out.markers[c] = NOTE_COLOR
           /\ frame.out.labels = {}
           /\ frame.out.title = Some([time |-> FormatTime(frame.t), playing |-> <<>>])

\* a frame after the end of the one note of the timeline, which has a position: its
\* marker is there, not highlighted
C23_Witness ==
    /\ frame.called
    /\ Silent
    /\ Len(notes) = 1
    /\ notes[1].duration > 0
    /\ frame.t >= notes[1].start_time + notes[1].duration
    /\ DOMAIN frame.out.markers = {<<5, 1>>}
    /\ frame.out.title = Some([time |-> FormatTime(frame.t), playing |-> <<>>])

\* C24: in a frame, the marker left at a coordinate is in the highlight colour whenever
\* a note that is active at the time of the frame has its position there, whatever notes
\* follow it in the list.
C24_ActiveMarkerOnTop ==
    (frame.called /\ ~frame.out.raised)
        => \A i \in 1..Len(notes) :
              (IsActiveAt(notes[i], frame.t) /\ ResolvePosition(notes[i].note).pos # Absent)
                  => frame.out.markers[TheOf(ResolvePosition(notes[i].note).pos)]
                        = HIGHLIGHT_COLOR


------------------------------------------------------------------------------
(* Labels and positions of the notes of a frame *)

\* the finger-position labels of the frets 0..15, fret f at index f + 1
StatedFingerLabels ==
    << <<"0">>, <<"-", "1">>, <<"1">>, <<"2">>, <<"2", "+">>, <<"3">>, <<"4">>, <<"5">>,
       <<"6">>, <<"7">>, <<"8">>, <<"9">>, <<"1", "0">>, <<"1", "1">>, <<"1", "2">>,
       <<"1", "3">> >>

\* the label stated for a note drawn at coord
StatedLabel(n, coord) ==
    IF n.text = Absent THEN n.pitch[1] \o StatedFingerLabels[coord[1] + 1] ELSE TheOf(n.text)

\* C25: every active note with a resolved position has exactly one label at its position:
\* its annotation, or without one its pitch step followed by the finger-position label of
\* its fret (0 -> "0", 1 -> "-1", 2 -> "1", 3 -> "2", 4 -> "2+", f >= 5 -> f - 2), which is
\* defined for every fret 0..15 of the table
C25_LabelIsStepAndFinger ==
    /\ \A name \in DOMAIN NOTE_POSITIONS : NOTE_POSITIONS[name][1] \in 0..15
    /\ (frame.called /\ ~frame.out.raised)
        => \A i \in 1..Len(notes) :
              (IsActiveAt(notes[i], frame.t) /\ ResolvePosition(notes[i].note).pos # Absent)
                  => {l.text : l \in {m \in frame.out.labels :
                                         m.at = TheOf(ResolvePosition(notes[i].note).pos)}}
                        = {StatedLabel(notes[i], TheOf(ResolvePosition(notes[i].note).pos))}

\* a G6 without annotation is playing at fret 15 and labelled "G13"
C25_Witness ==
    /\ frame.called
    /\ ~frame.out.raised
    /\ Len(notes) = 1
    /\ notes[1].note = <<"G", "6">>
    /\ notes[1].text = Absent
    /\ IsActiveAt(notes[1], frame.t)
    /\ \E l \in frame.out.labels : l.at = <<15, 3>> /\ l.text = <<"G", "1", "3">>


\* the coordinates listed for a label in the dictionary literal
ListedCoords(name) ==
    {NOTE_POSITIONS_ITEMS[i][2] : i \in {j \in DOMAIN NOTE_POSITIONS_ITEMS :
                                            NOTE_POSITIONS_ITEMS[j][1] = name}}

\* the pairs of the literal after which no pair has the same label
LastListed ==
    {i \in DOMAIN NOTE_POSITIONS_ITEMS :
        \A j \in (i + 1)..Len(NOTE_POSITIONS_ITEMS) :
            NOTE_POSITIONS_ITEMS[j][1] # NOTE_POSITIONS_ITEMS[i][1]}

\* C26: the table gives every listed label one coordinate, that of the last pair listed
\* for it, which is on the highest of the strings it is listed under (D4 -> (0, 1),
\* A4 -> (0, 2), E5 -> (0, 3), G4 -> (5, 1)), and every frame draws a note of a listed
\* label at that coordinate and nowhere else
C26_OneCoordinateLastDefined ==
    /\ \A i \in LastListed :
          PositionsGet(NOTE_POSITIONS_ITEMS[i][1]) = Some(NOTE_POSITIONS_ITEMS[i][2])
    /\ \A name \in DOMAIN NOTE_POSITIONS :
          \A c \in ListedCoords(name) : c[2] <= NOTE_POSITIONS[name][2]
    /\ PositionsGet(<<"D", "4">>) = Some(<<0, 1>>)
    /\ PositionsGet(<<"A", "4">>) = Some(<<0, 2>>)
    /\ PositionsGet(<<"E", "5">>) = Some(<<0, 3>>)
    /\ PositionsGet(<<"G", "4">>) = Some(<<5, 1>>)
    /\ \A f \in {frame, prev_frame} :
          (f.called /\ ~f.out.raised)
              => \A i \in 1..Len(notes) :
                    notes[i].note \in DOMAIN NOTE_POSITIONS
                        => DOMAIN f.out.markers = {NOTE_POSITIONS[notes[i].note]}

\* two frames at different times have drawn a D4, listed on the G and on the D string,
\* both on the open D string
C26_Witness ==
    /\ frame.called
    /\ prev_frame.called
    /\ frame.t # prev_frame.t
    /\ Len(notes) = 1
    /\ notes[1].note = <<"D", "4">>
    /\ Cardinality(ListedCoords(notes[1].note)) = 2
    /\ DOMAIN frame.out.markers = {<<0, 1>>}
    /\ DOMAIN prev_frame.out.markers = {<<0, 1>>}


\* the steps whose single flat the lookup does not rewrite
FlatSteps == {"D", "E", "G", "A", "B"}

\* the step of the sharp that sounds as the flat of a step of FlatSteps
SharpStepOf(st) ==
    IF st = "D" THEN "C"
    ELSE IF st = "E" THEN "D"
    ELSE IF st = "G" THEN "F"
    ELSE IF st = "A" THEN "G"
    ELSE "A"

\* the note is a single flat of a step of FlatSteps
IsPlainFlat(n) == n.pitch[3] = -1 /\ Len(n.pitch[1]) = 1 /\ n.pitch[1][1] \in FlatSteps

\* the label of the sharp that sounds as the plain flat n
SharpEquivalent(n) == <<SharpStepOf(n.pitch[1][1]), "#">> \o IntToChars(n.pitch[2])

\* the frame has neither marker nor label
NothingDrawn(f) == f.called /\ ~f.out.raised /\ f.out.markers = <<>> /\ f.out.labels = {}

\* C30 as stated: a note with a single flat other than Cb and Fb is drawn in no frame, and
\* the sharp of the same sound is in the position table
C30_PlainFlatNeverDrawnSharpListed ==
    \A i \in 1..Len(notes) :
        IsPlainFlat(notes[i])
            => /\ frame.called => NothingDrawn(frame)
               /\ SharpEquivalent(notes[i]) \in DOMAIN NOTE_POSITIONS

\* the plain flats whose sharp of the same sound is in the position table: G#3 to F#6
SharpInRange(n) ==
    \/ n.pitch[2] \in {4, 5}
    \/ n.pitch[2] = 3 /\ n.pitch[1][1] \in {"A", "B"}
    \/ n.pitch[2] = 6 /\ n.pitch[1][1] \in {"D", "E", "G"}

\* C30: a note with a single flat other than Cb and Fb is drawn in no frame, with neither
\* marker nor label at any query time; the sharp of the same sound is in the position
\* table exactly for the flats from Ab3 to Gb6
C30_PlainFlatNeverDrawn ==
    \A i \in 1..Len(notes) :
        IsPlainFlat(notes[i])
            => /\ notes[i].note = <<notes[i].pitch[1][1], "b">> \o IntToChars(notes[i].pitch[2])
               /\ frame.called => NothingDrawn(frame)
               /\ prev_frame.called => NothingDrawn(prev_frame)
               /\ SharpEquivalent(notes[i]) \in DOMAIN NOTE_POSITIONS <=> SharpInRange(notes[i])

\* a Bb4 is playing in a frame with neither marker nor label, while A#4 is in the table
C30_Witness ==
    /\ Len(notes) = 1
    /\ notes[1].note = <<"B", "b", "4">>
    /\ IsPlainFlat(notes[1])
    /\ frame.called
    /\ IsActiveAt(notes[1], frame.t)
    /\ NothingDrawn(frame)
    /\ SharpEquivalent(notes[1]) = <<"A", "#", "4">>
    /\ <<"A", "#", "4">> \in DOMAIN NOTE_POSITIONS


------------------------------------------------------------------------------
(* The events of a returned timeline *)

\* C27: every event of a timeline parse_musicxml returned starts at a time >= 0 and has
\* a duration > 0
C27_StartNonNegativeDurationPositive ==
    timeline # Absent
        => \A i \in 1..Len(TheOf(timeline)) :
              TheOf(timeline)[i].start_time >= 0 /\ TheOf(timeline)[i].duration > 0


\* the document has positive divisions and tempo, and every duration it states is positive
PositiveDocument ==
    /\ props.divisions > 0
    /\ props.tempo_bpm > 0
    /\ props.seconds_per_division > 0
    /\ \A i \in DOMAIN doc.entries :
          (~MissingText(doc.entries[i].duration) /\ IsFloatText(TheOf(doc.entries[i].duration)))
              => FloatOf(TheOf(doc.entries[i].duration)) > 0

\* the end of the active interval of an event
EndOf(n) == n.start_time + n.duration

\* the starts of the events, the last instants before their ends, and the query times
ProbeTimes(ns) ==
    QueryTimes \cup {ns[i].start_time : i \in DOMAIN ns} \cup {EndOf(ns[i]) - 10 : i \in DOMAIN ns}

\* C28: at every point of the decode of a document of positive divisions, tempo and
\* durations, the active intervals of the events are pairwise disjoint, at most one event
\* is active at any time, and no frame of the video shows more than one note playing,
\* whatever the voices of the notes
C28_AtMostOneActive ==
    PositiveDocument
        => /\ \A i, j \in 1..Len(notes) : i < j => EndOf(notes[i]) <= notes[j].start_time
           /\ \A t \in ProbeTimes(notes) : Len(ActiveNotes(notes, t)) <= 1
           /\ \A k \in 1..Len(video.frames) :
                 video.frames[k].title # Absent
                     => Len(TheOf(video.frames[k].title).playing) <= 1

\* a video of two notes of two voices, the second starting the instant the first ends,
\* with a frame at that instant
C28_Witness ==
    /\ PositiveDocument
    /\ Len(notes) = 2
    /\ notes[1].voice # notes[2].voice
    /\ notes[2].start_time = EndOf(notes[1])
    /\ ActiveNotes(notes, notes[2].start_time) = <<notes[2]>>
    /\ video.called
    /\ \E k \in 1..Len(video.frames) :
          /\ (k - 1) * (SecondMs \div video.fps) = notes[2].start_time
          /\ video.frames[k].title # Absent
          /\ Len(TheOf(video.frames[k].title).playing) = 1


\* the time of frame k of the video
SampleTime(k) == (k - 1) * (SecondMs \div video.fps)

\* the frames of the last second of the video
FinalSecond == {k \in 1..Len(video.frames) : SampleTime(k) >= video.duration - SecondMs}

\* C29: at every point of the decode of a document of positive divisions, tempo and
\* durations the starts of the events do not decrease along the list and the last event
\* ends last; a video made of the timeline with no explicit duration holds the whole
\* active interval of every event, and in the frames of its final second no note is playing
C29_NotesInsideVideo ==
    (PositiveDocument /\ notes # <<>>)
        => /\ \A i \in 1..(Len(notes) - 1) : notes[i].start_time <= notes[i + 1].start_time
           /\ \A i \in 1..Len(notes) : EndOf(notes[i]) <= EndOf(LastOf(notes))
           /\ (video.called /\ video.explicit_duration = Absent /\ timeline = Some(notes))
                 => /\ \A i \in 1..Len(notes) :
                          /\ 0 <= notes[i].start_time
                          /\ EndOf(notes[i]) <= video.duration - SecondMs
                    /\ \A k \in FinalSecond :
                          /\ video.frames[k].title # Absent
                          /\ TheOf(video.frames[k].title).playing = <<>>
                          /\ \A c \in DOMAIN video.frames[k].markers :
                                video.frames[k].markers[c] # HIGHLIGHT_COLOR

\* a video of two notes with no explicit duration: it lasts one second more than the end
\* of the last note, and a note is playing in its frames before the final second only
C29_Witness ==
    /\ PositiveDocument
    /\ Len(notes) = 2
    /\ timeline = Some(notes)
    /\ video.called
    /\ video.explicit_duration = Absent
    /\ video.duration = EndOf(notes[2]) + SecondMs
    /\ FinalSecond # {}
    /\ \E k \in 1..Len(video.frames) :
          /\ k \notin FinalSecond
          /\ video.frames[k].title # Absent
          /\ TheOf(video.frames[k].title).playing # <<>>

====
